---------------------------- MODULE Spec2Model ----------------------------
(***************************************************************************)
(* Nonce-search engine of the PoW miner (gpu-miner crate).                 *)
(*                                                                         *)
(*   pow.rs         compute_hash, verify_nonce          (Proof Function)   *)
(*   miner.rs       CpuMiner::mine, SimpleCpuMiner::mine (MinerBackend)    *)
(*   cuda_miner.rs  CudaMiner::mine                      (MinerBackend)    *)
(*   cpu.rs         mine, mine_batch, is_valid_hash      (batch search)    *)
(*   gpu.rs         mine and the OpenCL kernel `mine`    (accelerator)     *)
(*   main.rs        main, run_benchmark                  (orchestrator)    *)
(*                                                                         *)
(* Representation.  A byte string is a sequence of 0..255.  A u128 that    *)
(* holds a hash value or a target is a sequence of 8 limbs of 16 bits,     *)
(* most significant first (TLC's integers are 32 bits wide).  Nonces,      *)
(* block numbers and counters are naturals; the u64 of cpu.rs and gpu.rs   *)
(* wraps at U64_MODULUS, a scaled-down 2^64.  SHA-256 is the table of the  *)
(* real digests of the messages of the model's input domain.               *)
(***************************************************************************)
EXTENDS Integers, Sequences, FiniteSets, TLC

(***************************************************************************)
(* Bounds of the model.                                                    *)
(***************************************************************************)
\* largest max_nonce handed to a MinerBackend
MaxNonceBound == 5
\* largest thread count (CpuMiner::new, cpu::mine)
MaxThreads == 3
\* largest threads_per_block and num_blocks of CudaMiner::with_config
MaxLaunchDim == 2

(***************************************************************************)
(* Bytes and integers.                                                     *)
(***************************************************************************)
Rep(b, n) == [i \in 1..n |-> b]

Byte == 0..255

\* uN::to_le_bytes for an integer held as a natural: n bytes, least
\* significant first
RECURSIVE to_le_bytes(_, _)
to_le_bytes(x, n) ==
  IF n = 0 THEN <<>> ELSE <<x % 256>> \o to_le_bytes(x \div 256, n - 1)

\* u128::from_le_bytes: bytes 1..16, least significant first, to the 8
\* limbs of the value, most significant first
from_le_bytes(bytes) ==
  [i \in 1..8 |-> bytes[18 - 2 * i] * 256 + bytes[17 - 2 * i]]

\* u128::to_le_bytes of a value held as limbs
u128_to_le_bytes(v) ==
  [j \in 1..16 |-> IF j % 2 = 1 THEN v[8 - (j - 1) \div 2] % 256
                                ELSE v[8 - (j - 1) \div 2] \div 256]

\* a < b on u128 values
RECURSIVE LimbsLess(_, _, _)
LimbsLess(a, b, i) ==
  IF i > 8 THEN FALSE
  ELSE IF a[i] < b[i] THEN TRUE
  ELSE IF a[i] > b[i] THEN FALSE
  ELSE LimbsLess(a, b, i + 1)

U128Less(a, b) == LimbsLess(a, b, 1)

\* u128::MAX
U128_MAX == [i \in 1..8 |-> 65535]

\* u128::MAX / difficulty by long division over the limbs (difficulty > 0)
RECURSIVE DivLimbs(_, _, _, _)
DivLimbs(v, d, i, rem) ==
  IF i > 8 THEN <<>>
  ELSE LET cur == rem * 65536 + v[i]
       IN  <<cur \div d>> \o DivLimbs(v, d, i + 1, cur % d)

U128Div(v, d) == DivLimbs(v, d, 1, 0)

(***************************************************************************)
(* SHA-256 (sha2::Sha256, and sha256_40bytes of the OpenCL kernel): the    *)
(* digests of the messages the model hashes, as the hash function returns  *)
(* them.  88-byte messages are those of pow::compute_hash, 48-byte ones    *)
(* those of cpu::mine_batch, 40-byte ones those of the OpenCL kernel.      *)
(* The last rows are the messages of SpecCalls (challenge [1; 32], nonce   *)
(* 256), those of the nonces 10 to 12, and the 48-byte messages of        *)
(* benchmark_cpu (block number 0).                                         *)
(***************************************************************************)
Sha256Table ==
     (Rep(0, 32) \o Rep(1, 32) \o <<0>> \o Rep(0, 15) \o <<100>> \o Rep(0, 7)
      :> <<203,208,205,117,34,154,206,51,105,90,84,170,93,111,21,25,128,219,6,202,4,254,171,15,195,124,192,24,23,1,91,197>>)
  @@ (Rep(0, 32) \o Rep(1, 32) \o <<1>> \o Rep(0, 15) \o <<100>> \o Rep(0, 7)
      :> <<151,158,195,243,20,142,81,143,241,191,111,13,219,227,42,32,23,163,190,195,80,33,156,95,56,236,159,162,177,94,146,93>>)
  @@ (Rep(0, 32) \o Rep(1, 32) \o <<2>> \o Rep(0, 15) \o <<100>> \o Rep(0, 7)
      :> <<75,209,200,144,69,255,182,111,35,246,253,180,240,79,15,228,101,9,195,225,230,32,105,98,148,220,166,190,250,141,2,167>>)
  @@ (Rep(0, 32) \o Rep(1, 32) \o <<3>> \o Rep(0, 15) \o <<100>> \o Rep(0, 7)
      :> <<133,217,12,182,188,14,200,174,152,167,192,81,146,47,5,14,164,208,209,121,195,153,138,47,221,157,60,120,83,208,96,35>>)
  @@ (Rep(0, 32) \o Rep(1, 32) \o <<4>> \o Rep(0, 15) \o <<100>> \o Rep(0, 7)
      :> <<109,137,133,0,223,123,165,4,188,188,247,211,155,167,3,225,26,15,28,58,201,108,207,62,111,9,99,40,9,91,148,100>>)
  @@ (Rep(0, 32) \o Rep(1, 32) \o <<5>> \o Rep(0, 15) \o <<100>> \o Rep(0, 7)
      :> <<242,163,202,117,174,241,1,9,24,203,104,29,242,35,209,93,182,7,192,238,246,228,208,76,94,103,146,225,143,189,112,1>>)
  @@ (Rep(0, 32) \o Rep(1, 32) \o <<6>> \o Rep(0, 15) \o <<100>> \o Rep(0, 7)
      :> <<167,158,99,116,186,78,71,172,102,97,242,58,191,215,87,226,99,247,29,144,189,192,223,1,97,245,30,25,27,70,159,253>>)
  @@ (Rep(0, 32) \o Rep(1, 32) \o <<7>> \o Rep(0, 15) \o <<100>> \o Rep(0, 7)
      :> <<92,28,255,25,130,57,197,84,206,158,174,235,85,33,214,51,93,207,8,53,13,171,76,102,8,68,245,214,46,224,149,113>>)
  @@ (Rep(0, 32) \o Rep(1, 32) \o <<8>> \o Rep(0, 15) \o <<100>> \o Rep(0, 7)
      :> <<165,211,203,186,166,226,44,65,134,197,151,164,23,194,154,143,86,100,107,180,134,22,175,61,159,237,65,131,238,65,247,45>>)
  @@ (Rep(0, 32) \o Rep(1, 32) \o <<9>> \o Rep(0, 15) \o <<100>> \o Rep(0, 7)
      :> <<54,188,230,78,20,166,239,121,196,160,67,103,175,109,27,94,99,142,120,157,201,122,38,234,136,111,145,232,193,48,127,18>>)
  @@ (Rep(0, 32) \o Rep(1, 32) \o <<0>> \o Rep(0, 15) \o <<101>> \o Rep(0, 7)
      :> <<95,25,78,231,226,254,46,220,155,206,93,86,211,34,65,34,210,76,16,168,11,229,32,67,110,192,204,123,34,181,13,155>>)
  @@ (Rep(0, 32) \o Rep(1, 32) \o <<1>> \o Rep(0, 15) \o <<101>> \o Rep(0, 7)
      :> <<61,247,211,149,129,127,79,2,223,214,69,31,220,175,143,82,68,137,164,240,158,4,84,177,153,254,27,72,34,8,53,181>>)
  @@ (Rep(0, 32) \o Rep(1, 32) \o <<2>> \o Rep(0, 15) \o <<101>> \o Rep(0, 7)
      :> <<4,191,244,146,74,124,81,221,7,209,113,80,219,136,88,137,140,144,61,208,186,131,177,8,153,159,189,65,232,10,162,176>>)
  @@ (Rep(0, 32) \o Rep(1, 32) \o <<3>> \o Rep(0, 15) \o <<101>> \o Rep(0, 7)
      :> <<138,94,17,132,140,228,151,69,113,153,38,187,27,231,99,196,115,141,120,17,39,81,147,60,255,178,58,24,165,3,42,80>>)
  @@ (Rep(0, 32) \o Rep(1, 32) \o <<4>> \o Rep(0, 15) \o <<101>> \o Rep(0, 7)
      :> <<173,187,54,72,79,250,55,230,120,227,170,167,12,82,135,242,110,88,26,188,231,67,170,221,73,245,250,26,109,230,29,243>>)
  @@ (Rep(0, 32) \o Rep(1, 32) \o <<5>> \o Rep(0, 15) \o <<101>> \o Rep(0, 7)
      :> <<59,178,154,225,92,227,142,204,80,9,39,115,240,151,144,4,89,254,4,186,50,254,187,131,69,0,145,239,70,227,90,6>>)
  @@ (Rep(0, 32) \o Rep(1, 32) \o <<6>> \o Rep(0, 15) \o <<101>> \o Rep(0, 7)
      :> <<128,251,38,17,255,175,211,101,177,24,61,205,193,170,13,120,206,179,219,17,196,123,16,219,20,235,146,255,228,172,158,10>>)
  @@ (Rep(0, 32) \o Rep(1, 32) \o <<7>> \o Rep(0, 15) \o <<101>> \o Rep(0, 7)
      :> <<207,26,173,113,115,92,60,203,57,14,31,108,109,212,4,239,76,226,253,244,4,53,5,136,33,234,35,30,19,119,6,3>>)
  @@ (Rep(0, 32) \o Rep(1, 32) \o <<8>> \o Rep(0, 15) \o <<101>> \o Rep(0, 7)
      :> <<209,58,67,14,166,32,81,110,203,184,82,213,223,53,36,188,30,208,235,234,18,13,27,201,39,178,12,52,54,100,148,144>>)
  @@ (Rep(0, 32) \o Rep(1, 32) \o <<9>> \o Rep(0, 15) \o <<101>> \o Rep(0, 7)
      :> <<1,132,19,55,138,106,116,64,6,120,228,254,214,165,129,162,132,187,158,87,92,101,68,45,101,112,156,100,213,52,207,97>>)
  @@ (Rep(0, 32) \o Rep(2, 32) \o <<0>> \o Rep(0, 15) \o <<100>> \o Rep(0, 7)
      :> <<75,254,145,90,62,210,96,232,111,15,43,18,230,196,224,16,206,130,243,201,4,139,78,38,141,126,125,188,64,55,134,221>>)
  @@ (Rep(0, 32) \o Rep(2, 32) \o <<1>> \o Rep(0, 15) \o <<100>> \o Rep(0, 7)
      :> <<16,196,221,142,102,62,175,147,248,4,27,208,199,110,14,107,229,33,224,132,212,142,181,153,58,189,154,16,36,106,156,65>>)
  @@ (Rep(0, 32) \o Rep(2, 32) \o <<2>> \o Rep(0, 15) \o <<100>> \o Rep(0, 7)
      :> <<192,44,65,163,51,108,178,155,111,9,139,114,159,175,60,138,184,208,34,64,157,26,247,243,233,160,40,151,62,221,147,221>>)
  @@ (Rep(0, 32) \o Rep(2, 32) \o <<3>> \o Rep(0, 15) \o <<100>> \o Rep(0, 7)
      :> <<63,170,44,59,81,185,37,232,27,66,25,83,100,223,111,91,151,38,164,195,82,155,249,105,194,43,194,113,88,123,45,175>>)
  @@ (Rep(0, 32) \o Rep(2, 32) \o <<4>> \o Rep(0, 15) \o <<100>> \o Rep(0, 7)
      :> <<30,232,84,75,190,175,219,26,226,52,176,85,190,14,9,202,89,99,65,32,174,197,19,215,44,177,71,114,56,240,137,144>>)
  @@ (Rep(0, 32) \o Rep(2, 32) \o <<5>> \o Rep(0, 15) \o <<100>> \o Rep(0, 7)
      :> <<49,180,156,204,181,210,91,44,66,10,180,106,92,25,5,46,166,0,78,102,252,27,113,74,44,136,168,94,68,74,112,71>>)
  @@ (Rep(0, 32) \o Rep(2, 32) \o <<6>> \o Rep(0, 15) \o <<100>> \o Rep(0, 7)
      :> <<179,180,190,160,23,203,127,205,146,141,207,96,233,255,108,56,236,219,76,37,196,226,70,217,247,170,58,132,204,200,58,156>>)
  @@ (Rep(0, 32) \o Rep(2, 32) \o <<7>> \o Rep(0, 15) \o <<100>> \o Rep(0, 7)
      :> <<154,145,149,50,206,5,54,230,86,152,254,160,172,222,224,248,159,32,98,11,25,184,241,63,191,23,80,233,50,202,177,167>>)
  @@ (Rep(0, 32) \o Rep(2, 32) \o <<8>> \o Rep(0, 15) \o <<100>> \o Rep(0, 7)
      :> <<207,106,205,213,73,22,195,103,131,79,243,219,161,15,251,108,252,189,97,1,231,179,178,145,17,73,111,27,146,243,209,93>>)
  @@ (Rep(0, 32) \o Rep(2, 32) \o <<9>> \o Rep(0, 15) \o <<100>> \o Rep(0, 7)
      :> <<70,22,130,106,251,52,2,226,153,75,152,22,238,229,140,212,104,45,88,171,93,183,168,100,83,77,240,27,10,136,48,37>>)
  @@ (Rep(0, 32) \o Rep(2, 32) \o <<0>> \o Rep(0, 15) \o <<101>> \o Rep(0, 7)
      :> <<188,92,154,65,34,233,13,10,187,10,177,63,237,64,129,189,214,75,0,156,108,78,89,66,254,239,71,150,214,227,56,73>>)
  @@ (Rep(0, 32) \o Rep(2, 32) \o <<1>> \o Rep(0, 15) \o <<101>> \o Rep(0, 7)
      :> <<46,226,39,150,130,239,135,244,204,220,134,139,100,96,104,212,184,245,43,92,138,219,60,93,220,181,28,11,25,90,213,53>>)
  @@ (Rep(0, 32) \o Rep(2, 32) \o <<2>> \o Rep(0, 15) \o <<101>> \o Rep(0, 7)
      :> <<229,83,67,111,230,76,28,77,78,215,109,247,125,168,67,244,19,113,18,21,45,226,0,198,170,189,51,148,219,120,226,138>>)
  @@ (Rep(0, 32) \o Rep(2, 32) \o <<3>> \o Rep(0, 15) \o <<101>> \o Rep(0, 7)
      :> <<77,65,135,178,34,202,163,123,118,58,202,39,78,170,225,174,40,99,254,117,229,80,31,187,97,203,165,115,23,5,150,43>>)
  @@ (Rep(0, 32) \o Rep(2, 32) \o <<4>> \o Rep(0, 15) \o <<101>> \o Rep(0, 7)
      :> <<45,197,237,128,53,27,50,37,185,237,143,166,129,227,34,127,198,33,143,209,119,195,221,210,24,216,68,230,90,181,92,113>>)
  @@ (Rep(0, 32) \o Rep(2, 32) \o <<5>> \o Rep(0, 15) \o <<101>> \o Rep(0, 7)
      :> <<169,94,59,187,133,101,65,22,197,165,192,130,103,50,185,107,69,142,243,197,224,229,247,167,210,166,80,40,225,81,53,146>>)
  @@ (Rep(0, 32) \o Rep(2, 32) \o <<6>> \o Rep(0, 15) \o <<101>> \o Rep(0, 7)
      :> <<228,3,84,75,197,112,172,31,253,179,151,46,181,52,239,221,27,86,139,231,71,146,232,31,164,126,95,61,15,140,218,11>>)
  @@ (Rep(0, 32) \o Rep(2, 32) \o <<7>> \o Rep(0, 15) \o <<101>> \o Rep(0, 7)
      :> <<40,144,3,100,148,157,4,28,15,76,107,47,213,22,197,218,107,6,122,173,118,36,53,10,196,144,22,236,8,84,215,115>>)
  @@ (Rep(0, 32) \o Rep(2, 32) \o <<8>> \o Rep(0, 15) \o <<101>> \o Rep(0, 7)
      :> <<31,139,56,46,220,230,230,198,117,49,62,36,159,65,11,89,184,210,211,38,157,26,232,180,167,134,24,133,80,203,30,102>>)
  @@ (Rep(0, 32) \o Rep(2, 32) \o <<9>> \o Rep(0, 15) \o <<101>> \o Rep(0, 7)
      :> <<126,209,211,115,244,146,169,174,227,75,161,205,180,118,53,35,122,80,80,109,35,55,142,57,90,204,244,242,57,199,71,134>>)
  @@ (Rep(0, 32) \o <<0>> \o Rep(0, 7) \o <<100>> \o Rep(0, 7)
      :> <<115,211,176,112,222,69,191,49,88,107,117,227,238,5,15,8,152,172,172,197,174,59,34,34,177,235,25,29,144,151,46,22>>)
  @@ (Rep(0, 32) \o <<1>> \o Rep(0, 7) \o <<100>> \o Rep(0, 7)
      :> <<155,14,83,168,78,185,63,120,203,131,55,184,28,104,160,134,200,22,228,150,137,24,119,191,236,80,104,160,193,188,78,172>>)
  @@ (Rep(0, 32) \o <<2>> \o Rep(0, 7) \o <<100>> \o Rep(0, 7)
      :> <<112,247,10,43,38,53,160,62,149,123,89,7,144,12,237,143,85,83,46,94,227,139,144,225,39,11,59,176,200,113,22,32>>)
  @@ (Rep(0, 32) \o <<3>> \o Rep(0, 7) \o <<100>> \o Rep(0, 7)
      :> <<72,174,131,98,195,105,132,76,222,174,47,244,218,74,1,198,225,82,22,223,92,159,11,148,93,132,200,56,62,217,180,13>>)
  @@ (Rep(0, 32) \o <<4>> \o Rep(0, 7) \o <<100>> \o Rep(0, 7)
      :> <<246,195,155,184,252,134,122,181,215,207,41,247,62,151,228,141,93,187,107,130,139,112,29,57,160,132,184,227,195,21,224,162>>)
  @@ (Rep(0, 32) \o <<5>> \o Rep(0, 7) \o <<100>> \o Rep(0, 7)
      :> <<125,237,103,90,59,55,170,145,174,20,115,88,73,190,59,140,125,242,250,153,150,227,104,236,47,163,202,112,119,12,136,97>>)
  @@ (Rep(0, 32) \o <<6>> \o Rep(0, 7) \o <<100>> \o Rep(0, 7)
      :> <<109,32,171,209,204,20,18,202,32,204,96,212,251,6,66,103,205,18,58,119,115,23,92,2,140,35,191,130,11,99,135,133>>)
  @@ (Rep(0, 32) \o <<7>> \o Rep(0, 7) \o <<100>> \o Rep(0, 7)
      :> <<7,180,143,88,161,130,191,204,31,49,252,46,130,78,215,10,189,203,24,235,137,220,31,164,26,8,234,23,31,253,239,71>>)
  @@ (Rep(0, 32) \o <<8>> \o Rep(0, 7) \o <<100>> \o Rep(0, 7)
      :> <<31,186,23,215,106,233,17,84,77,26,46,175,36,240,225,96,216,143,197,22,246,211,117,110,61,217,95,212,42,231,150,65>>)
  @@ (Rep(0, 32) \o <<9>> \o Rep(0, 7) \o <<100>> \o Rep(0, 7)
      :> <<117,242,136,33,124,146,21,151,16,106,241,163,63,86,166,80,34,165,197,224,87,4,124,67,104,95,121,240,219,133,98,26>>)
  @@ (Rep(0, 32) \o <<10>> \o Rep(0, 7) \o <<100>> \o Rep(0, 7)
      :> <<40,93,189,100,217,239,159,211,147,62,50,163,89,81,249,136,120,94,213,107,99,168,173,55,116,143,3,179,90,248,44,116>>)
  @@ (Rep(0, 32) \o <<11>> \o Rep(0, 7) \o <<100>> \o Rep(0, 7)
      :> <<226,248,68,125,85,30,155,188,120,2,191,199,116,8,162,156,181,103,179,97,141,43,250,9,154,184,168,52,221,62,113,129>>)
  @@ (Rep(0, 32) \o <<12>> \o Rep(0, 7) \o <<100>> \o Rep(0, 7)
      :> <<141,173,223,71,105,67,234,250,193,161,0,196,87,70,113,80,42,218,149,128,108,21,29,25,17,128,78,201,227,3,91,100>>)
  @@ (Rep(0, 32) \o <<13>> \o Rep(0, 7) \o <<100>> \o Rep(0, 7)
      :> <<45,156,5,197,254,112,228,120,37,246,56,219,178,13,224,43,37,102,93,246,15,101,211,49,188,73,14,66,86,179,19,39>>)
  @@ (Rep(0, 32) \o <<14>> \o Rep(0, 7) \o <<100>> \o Rep(0, 7)
      :> <<32,61,219,129,158,239,51,246,158,212,64,33,108,27,170,181,18,83,174,77,161,135,25,224,178,45,112,16,220,17,135,27>>)
  @@ (Rep(0, 32) \o <<15>> \o Rep(0, 7) \o <<100>> \o Rep(0, 7)
      :> <<148,104,175,223,174,57,252,164,197,116,59,57,85,15,83,40,25,164,165,210,109,41,230,255,198,206,178,180,144,95,199,59>>)
  @@ (Rep(0, 32) \o <<16>> \o Rep(0, 7) \o <<100>> \o Rep(0, 7)
      :> <<9,105,68,79,247,227,159,126,43,221,42,179,195,52,235,16,210,185,235,84,191,255,150,72,52,4,71,113,107,143,57,153>>)
  @@ (Rep(0, 32) \o <<17>> \o Rep(0, 7) \o <<100>> \o Rep(0, 7)
      :> <<194,129,185,112,0,110,113,255,241,111,135,189,194,219,39,23,153,240,250,195,4,219,202,18,129,43,113,155,108,91,250,193>>)
  @@ (Rep(0, 32) \o <<18>> \o Rep(0, 7) \o <<100>> \o Rep(0, 7)
      :> <<133,97,40,191,103,51,62,230,145,138,182,177,44,228,201,90,13,43,172,99,64,188,170,41,6,47,81,12,135,153,208,104>>)
  @@ (Rep(0, 32) \o <<19>> \o Rep(0, 7) \o <<100>> \o Rep(0, 7)
      :> <<77,104,55,192,202,188,81,105,26,163,165,214,252,50,104,4,182,227,255,192,37,3,76,163,75,126,23,214,90,61,222,25>>)
  @@ (Rep(0, 32) \o <<20>> \o Rep(0, 7) \o <<100>> \o Rep(0, 7)
      :> <<39,207,145,16,163,162,219,59,49,193,43,203,192,185,226,185,191,242,242,191,65,151,133,198,4,170,89,130,41,119,120,91>>)
  @@ (Rep(0, 32) \o <<21>> \o Rep(0, 7) \o <<100>> \o Rep(0, 7)
      :> <<102,187,172,144,14,136,7,147,23,35,6,140,197,213,106,242,108,36,164,211,224,63,192,222,247,163,204,63,155,172,241,242>>)
  @@ (Rep(0, 32) \o <<22>> \o Rep(0, 7) \o <<100>> \o Rep(0, 7)
      :> <<57,10,173,223,68,86,24,68,207,234,84,212,223,226,3,106,237,29,104,141,247,201,149,153,144,12,189,194,114,168,235,220>>)
  @@ (Rep(0, 32) \o <<23>> \o Rep(0, 7) \o <<100>> \o Rep(0, 7)
      :> <<254,77,24,42,143,102,103,240,82,207,53,43,203,255,101,162,243,138,89,251,12,68,55,176,48,181,108,49,204,243,147,249>>)
  @@ (Rep(0, 32) \o <<0>> \o Rep(0, 7) \o <<101>> \o Rep(0, 7)
      :> <<162,21,0,48,15,5,247,4,115,16,222,208,43,198,222,203,10,239,123,201,135,42,220,101,187,226,129,168,233,12,196,29>>)
  @@ (Rep(0, 32) \o <<1>> \o Rep(0, 7) \o <<101>> \o Rep(0, 7)
      :> <<185,44,231,85,38,60,105,23,31,91,131,207,244,244,16,152,164,17,242,162,135,165,4,201,171,219,58,133,151,88,228,45>>)
  @@ (Rep(0, 32) \o <<2>> \o Rep(0, 7) \o <<101>> \o Rep(0, 7)
      :> <<200,169,93,193,110,7,37,4,8,194,37,169,78,10,23,82,62,217,20,52,190,31,230,227,32,61,211,172,232,164,143,164>>)
  @@ (Rep(0, 32) \o <<3>> \o Rep(0, 7) \o <<101>> \o Rep(0, 7)
      :> <<1,116,84,197,83,53,163,250,80,223,250,172,107,167,107,15,15,100,206,220,18,144,222,85,41,61,2,160,218,100,107,253>>)
  @@ (Rep(0, 32) \o <<4>> \o Rep(0, 7) \o <<101>> \o Rep(0, 7)
      :> <<51,170,60,73,212,228,115,234,116,143,32,67,30,211,167,8,68,107,156,199,209,166,126,163,183,92,180,133,6,138,151,41>>)
  @@ (Rep(0, 32) \o <<5>> \o Rep(0, 7) \o <<101>> \o Rep(0, 7)
      :> <<194,60,229,137,164,126,75,63,182,147,171,143,189,1,189,191,241,92,231,79,161,233,173,224,28,184,3,30,48,168,93,212>>)
  @@ (Rep(0, 32) \o <<6>> \o Rep(0, 7) \o <<101>> \o Rep(0, 7)
      :> <<77,189,135,72,175,106,73,220,74,34,246,221,7,85,30,215,43,136,103,50,88,219,103,47,77,101,182,83,197,228,107,25>>)
  @@ (Rep(0, 32) \o <<7>> \o Rep(0, 7) \o <<101>> \o Rep(0, 7)
      :> <<214,221,204,159,108,219,181,130,170,248,230,206,25,14,58,212,236,225,202,193,68,133,167,73,55,56,149,50,122,152,234,150>>)
  @@ (Rep(0, 32) \o <<8>> \o Rep(0, 7) \o <<101>> \o Rep(0, 7)
      :> <<82,166,27,193,117,109,0,33,119,98,160,149,67,59,155,56,26,223,179,187,198,32,141,215,143,6,119,42,141,163,110,157>>)
  @@ (Rep(0, 32) \o <<9>> \o Rep(0, 7) \o <<101>> \o Rep(0, 7)
      :> <<126,57,104,136,117,25,239,122,27,206,195,22,231,73,149,174,134,221,34,170,17,120,47,167,116,236,192,120,242,130,178,53>>)
  @@ (Rep(0, 32) \o <<10>> \o Rep(0, 7) \o <<101>> \o Rep(0, 7)
      :> <<116,68,37,237,164,196,166,207,173,31,46,32,148,66,200,227,162,193,91,174,74,124,179,10,240,106,127,57,23,193,159,38>>)
  @@ (Rep(0, 32) \o <<11>> \o Rep(0, 7) \o <<101>> \o Rep(0, 7)
      :> <<144,197,0,223,38,148,96,223,54,128,237,117,84,9,166,184,244,215,224,40,185,92,89,64,224,203,252,192,227,104,43,122>>)
  @@ (Rep(0, 32) \o <<12>> \o Rep(0, 7) \o <<101>> \o Rep(0, 7)
      :> <<180,67,66,109,204,109,148,168,211,197,163,46,60,225,139,253,91,161,42,168,247,188,235,245,232,37,29,34,103,103,182,131>>)
  @@ (Rep(0, 32) \o <<13>> \o Rep(0, 7) \o <<101>> \o Rep(0, 7)
      :> <<66,217,57,148,173,84,98,106,197,178,115,121,191,1,200,31,208,173,10,169,22,219,22,108,176,120,28,235,210,17,180,162>>)
  @@ (Rep(0, 32) \o <<14>> \o Rep(0, 7) \o <<101>> \o Rep(0, 7)
      :> <<239,235,41,250,152,8,214,86,167,146,1,183,33,162,59,248,47,161,5,225,68,150,77,114,242,32,225,129,9,6,54,211>>)
  @@ (Rep(0, 32) \o <<15>> \o Rep(0, 7) \o <<101>> \o Rep(0, 7)
      :> <<160,10,171,241,122,27,182,177,163,215,68,135,245,194,253,241,69,38,196,146,36,244,60,175,31,103,71,183,230,96,131,84>>)
  @@ (Rep(0, 32) \o <<16>> \o Rep(0, 7) \o <<101>> \o Rep(0, 7)
      :> <<141,65,195,18,52,123,31,206,106,15,26,25,179,24,2,73,8,95,105,102,173,154,59,110,156,147,48,71,167,173,81,121>>)
  @@ (Rep(0, 32) \o <<17>> \o Rep(0, 7) \o <<101>> \o Rep(0, 7)
      :> <<117,163,89,5,245,73,224,89,32,239,72,184,64,34,191,164,24,2,39,123,141,246,232,255,57,163,239,18,205,87,227,47>>)
  @@ (Rep(0, 32) \o <<18>> \o Rep(0, 7) \o <<101>> \o Rep(0, 7)
      :> <<99,51,24,251,213,77,138,222,22,26,227,129,159,155,229,117,23,105,206,142,37,212,14,202,80,2,102,203,109,12,214,172>>)
  @@ (Rep(0, 32) \o <<19>> \o Rep(0, 7) \o <<101>> \o Rep(0, 7)
      :> <<85,46,185,71,47,229,157,206,211,253,51,183,211,145,245,225,179,39,0,183,4,151,78,141,244,44,121,139,104,19,84,76>>)
  @@ (Rep(0, 32) \o <<20>> \o Rep(0, 7) \o <<101>> \o Rep(0, 7)
      :> <<206,178,88,193,228,191,47,58,31,24,191,182,200,113,229,80,153,157,16,122,48,166,139,79,245,73,184,8,244,236,189,128>>)
  @@ (Rep(0, 32) \o <<21>> \o Rep(0, 7) \o <<101>> \o Rep(0, 7)
      :> <<80,104,231,199,127,121,179,39,152,184,168,152,17,30,44,92,237,246,71,213,107,195,215,97,31,88,106,12,209,27,104,147>>)
  @@ (Rep(0, 32) \o <<22>> \o Rep(0, 7) \o <<101>> \o Rep(0, 7)
      :> <<139,175,99,161,88,246,11,163,174,83,88,168,110,255,184,1,100,90,142,95,162,53,166,8,38,231,242,166,192,111,89,133>>)
  @@ (Rep(0, 32) \o <<23>> \o Rep(0, 7) \o <<101>> \o Rep(0, 7)
      :> <<195,36,237,14,94,18,238,48,23,59,137,197,86,163,214,155,253,85,84,108,246,110,162,63,137,107,63,235,186,253,133,136>>)
  @@ (Rep(0, 32) \o <<0>> \o Rep(0, 7)
      :> <<44,52,206,29,242,59,131,140,90,191,42,127,100,55,204,163,211,6,126,213,9,255,37,241,29,246,177,27,88,43,81,235>>)
  @@ (Rep(0, 32) \o <<1>> \o Rep(0, 7)
      :> <<25,234,68,190,137,238,206,15,212,236,116,130,4,159,71,42,17,175,25,56,75,255,179,138,136,231,123,59,29,213,76,25>>)
  @@ (Rep(0, 32) \o <<2>> \o Rep(0, 7)
      :> <<29,233,134,172,22,141,207,184,165,43,99,32,73,122,73,169,203,110,158,151,40,171,89,207,187,75,13,68,218,24,252,4>>)
  @@ (Rep(0, 32) \o <<3>> \o Rep(0, 7)
      :> <<16,228,228,232,184,44,200,54,107,21,188,220,160,148,226,248,116,172,218,134,37,100,116,62,198,249,45,187,151,4,94,70>>)
  @@ (Rep(0, 32) \o <<4>> \o Rep(0, 7)
      :> <<89,5,2,78,51,201,203,120,27,63,163,5,80,36,186,214,68,164,234,23,33,167,18,179,255,209,197,244,76,119,62,42>>)
  @@ (Rep(0, 32) \o <<5>> \o Rep(0, 7)
      :> <<22,38,129,235,45,28,129,252,145,38,21,4,98,241,168,12,252,141,28,177,66,238,213,9,238,86,38,201,32,160,56,129>>)
  @@ (Rep(0, 32) \o <<6>> \o Rep(0, 7)
      :> <<42,35,112,35,12,143,220,119,26,250,5,103,187,198,136,24,48,30,108,76,63,61,251,60,75,154,190,93,61,75,146,72>>)
  @@ (Rep(0, 32) \o <<7>> \o Rep(0, 7)
      :> <<77,93,146,3,63,25,227,96,135,38,68,173,207,160,215,49,101,90,229,175,162,85,178,102,221,80,154,148,186,142,74,102>>)
  @@ (Rep(0, 32) \o <<8>> \o Rep(0, 7)
      :> <<65,151,234,22,206,26,136,54,124,22,252,214,64,53,240,97,226,18,17,223,88,237,229,76,179,59,88,101,153,178,223,215>>)
  @@ (Rep(0, 32) \o <<9>> \o Rep(0, 7)
      :> <<109,38,182,36,96,134,18,164,16,244,181,94,196,133,113,215,233,183,217,105,155,7,220,78,133,111,206,247,176,207,253,1>>)
  @@ (Rep(0, 32) \o <<10>> \o Rep(0, 7)
      :> <<245,213,237,254,183,98,236,52,46,199,139,66,251,146,120,210,70,27,54,217,6,192,193,131,123,61,35,200,78,17,65,132>>)
  @@ (Rep(0, 32) \o <<11>> \o Rep(0, 7)
      :> <<134,53,241,91,146,3,194,119,16,167,37,202,156,208,232,176,113,92,88,141,84,14,188,58,111,56,240,197,59,95,163,23>>)
  @@ (Rep(0, 32) \o <<12>> \o Rep(0, 7)
      :> <<13,158,245,165,77,225,105,35,133,188,109,46,83,127,224,105,132,59,134,41,154,68,151,36,44,234,122,98,115,62,193,96>>)
  @@ (Rep(0, 32) \o <<13>> \o Rep(0, 7)
      :> <<75,236,220,7,121,171,62,227,39,90,182,92,98,41,14,93,109,222,166,16,253,79,252,233,154,122,61,183,23,109,84,40>>)
  @@ (Rep(0, 32) \o <<14>> \o Rep(0, 7)
      :> <<167,151,207,58,133,20,82,87,54,3,65,170,147,107,175,65,238,101,124,244,161,137,138,18,249,117,221,103,223,10,189,68>>)
  @@ (Rep(0, 32) \o <<15>> \o Rep(0, 7)
      :> <<170,148,41,113,138,113,144,108,109,45,114,251,143,135,40,178,16,142,124,1,99,243,88,232,254,160,22,233,253,9,212,132>>)
  @@ (Rep(0, 32) \o <<16>> \o Rep(0, 7)
      :> <<110,154,20,71,109,249,218,191,88,65,138,24,68,100,88,219,110,136,93,146,125,23,62,79,159,130,93,85,126,248,182,252>>)
  @@ (Rep(0, 32) \o <<17>> \o Rep(0, 7)
      :> <<15,20,215,8,207,116,81,169,142,105,143,175,100,97,137,21,223,175,228,129,170,252,96,192,234,124,13,171,111,185,15,12>>)
  @@ (Rep(0, 32) \o <<18>> \o Rep(0, 7)
      :> <<67,242,206,199,52,132,66,195,29,14,143,21,227,243,238,196,191,76,75,79,86,66,59,8,15,142,92,144,112,229,170,232>>)
  @@ (Rep(0, 32) \o <<19>> \o Rep(0, 7)
      :> <<49,6,38,50,213,247,52,22,37,156,171,205,246,145,67,154,91,214,22,91,130,142,13,196,210,53,147,107,188,147,234,114>>)
  @@ (Rep(0, 32) \o <<20>> \o Rep(0, 7)
      :> <<111,169,138,115,230,80,1,202,133,112,232,95,94,14,108,155,217,6,122,34,62,239,26,95,128,116,29,113,44,250,37,210>>)
  @@ (Rep(0, 32) \o <<21>> \o Rep(0, 7)
      :> <<136,30,127,141,252,235,70,186,180,40,226,189,0,160,228,222,132,170,150,147,85,148,35,176,100,49,41,120,112,147,119,133>>)
  @@ (Rep(0, 32) \o <<22>> \o Rep(0, 7)
      :> <<185,95,231,148,197,95,243,224,79,233,242,108,26,28,41,124,18,246,233,19,32,34,201,216,114,59,110,113,207,133,87,3>>)
  @@ (Rep(0, 32) \o <<23>> \o Rep(0, 7)
      :> <<107,158,94,34,107,83,45,158,98,35,35,103,237,160,117,236,18,16,209,217,130,246,251,98,70,232,44,10,70,36,97,166>>)
  @@ (Rep(0, 32) \o Rep(1, 32) \o <<0,1>> \o Rep(0, 14) \o <<100>> \o Rep(0, 7)
      :> <<166,197,163,13,45,198,50,232,64,45,12,140,178,68,193,8,5,11,98,215,26,219,202,210,187,226,241,4,50,233,133,98>>)
  @@ (Rep(0, 32) \o Rep(1, 32) \o <<0,1>> \o Rep(0, 14) \o <<101>> \o Rep(0, 7)
      :> <<156,102,183,112,144,55,124,180,93,1,245,100,173,62,130,35,108,205,83,161,44,213,85,209,135,107,250,192,196,184,12,162>>)
  @@ (Rep(0, 32) \o Rep(2, 32) \o <<0,1>> \o Rep(0, 14) \o <<100>> \o Rep(0, 7)
      :> <<83,129,25,174,41,146,184,89,116,142,147,132,28,14,158,37,20,88,158,180,90,114,114,59,39,148,36,193,30,225,22,197>>)
  @@ (Rep(0, 32) \o Rep(2, 32) \o <<0,1>> \o Rep(0, 14) \o <<101>> \o Rep(0, 7)
      :> <<211,199,172,195,34,194,100,197,112,23,113,166,182,177,209,107,10,145,111,138,187,217,70,10,88,60,10,186,237,33,1,7>>)
  @@ (Rep(1, 32) \o Rep(1, 32) \o <<0,0>> \o Rep(0, 14) \o <<100>> \o Rep(0, 7)
      :> <<68,198,251,126,221,57,248,208,56,17,93,115,226,182,56,237,28,13,104,65,29,212,21,155,25,250,114,155,15,89,139,206>>)
  @@ (Rep(1, 32) \o Rep(1, 32) \o <<1,0>> \o Rep(0, 14) \o <<100>> \o Rep(0, 7)
      :> <<142,45,198,60,106,34,127,154,164,49,132,208,14,134,158,94,225,19,185,149,41,148,175,134,224,125,50,193,144,197,67,30>>)
  @@ (Rep(1, 32) \o Rep(1, 32) \o <<0,1>> \o Rep(0, 14) \o <<100>> \o Rep(0, 7)
      :> <<2,73,125,51,190,169,58,206,244,52,33,166,242,131,218,95,25,207,111,36,202,169,57,93,82,142,116,70,99,26,43,244>>)
  @@ (Rep(1, 32) \o Rep(1, 32) \o <<0,0>> \o Rep(0, 14) \o <<101>> \o Rep(0, 7)
      :> <<29,15,172,218,165,217,164,215,187,228,164,205,74,87,248,18,180,254,146,91,73,193,63,152,6,26,18,121,91,234,28,35>>)
  @@ (Rep(1, 32) \o Rep(1, 32) \o <<1,0>> \o Rep(0, 14) \o <<101>> \o Rep(0, 7)
      :> <<64,255,146,190,120,0,103,200,203,163,154,246,182,130,44,112,243,193,38,20,132,49,60,92,236,170,128,56,104,2,109,27>>)
  @@ (Rep(1, 32) \o Rep(1, 32) \o <<0,1>> \o Rep(0, 14) \o <<101>> \o Rep(0, 7)
      :> <<239,202,50,19,177,73,221,240,231,169,219,83,178,93,183,29,226,22,149,48,76,165,151,4,196,88,178,161,12,133,209,180>>)
  @@ (Rep(1, 32) \o Rep(2, 32) \o <<0,0>> \o Rep(0, 14) \o <<100>> \o Rep(0, 7)
      :> <<188,225,213,153,65,222,171,250,216,69,95,91,250,133,89,31,231,55,196,255,249,184,112,234,68,171,124,131,63,1,168,49>>)
  @@ (Rep(1, 32) \o Rep(2, 32) \o <<1,0>> \o Rep(0, 14) \o <<100>> \o Rep(0, 7)
      :> <<6,23,166,98,134,92,91,43,250,74,226,175,142,182,75,14,150,69,142,13,98,120,64,59,55,114,210,171,181,143,67,5>>)
  @@ (Rep(1, 32) \o Rep(2, 32) \o <<0,1>> \o Rep(0, 14) \o <<100>> \o Rep(0, 7)
      :> <<33,215,13,138,199,104,89,126,151,181,5,3,229,63,197,61,191,163,170,152,163,180,167,112,247,26,22,134,75,246,189,122>>)
  @@ (Rep(1, 32) \o Rep(2, 32) \o <<0,0>> \o Rep(0, 14) \o <<101>> \o Rep(0, 7)
      :> <<178,38,16,157,90,92,7,96,79,198,20,61,217,222,86,44,177,29,211,199,75,161,114,6,252,227,34,222,131,68,15,74>>)
  @@ (Rep(1, 32) \o Rep(2, 32) \o <<1,0>> \o Rep(0, 14) \o <<101>> \o Rep(0, 7)
      :> <<58,45,226,95,163,5,188,175,85,55,162,152,6,211,19,153,215,145,222,4,116,114,57,129,229,77,187,101,144,91,83,6>>)
  @@ (Rep(1, 32) \o Rep(2, 32) \o <<0,1>> \o Rep(0, 14) \o <<101>> \o Rep(0, 7)
      :> <<240,254,148,74,208,205,32,6,77,151,187,188,27,145,23,146,240,8,37,16,173,25,234,112,101,133,206,220,58,143,121,180>>)
  @@ (Rep(0, 32) \o Rep(1, 32) \o <<10>> \o Rep(0, 15) \o <<100>> \o Rep(0, 7)
      :> <<242,113,174,129,44,21,130,134,248,26,71,148,57,64,118,246,68,221,30,61,85,110,49,248,195,134,246,122,78,18,226,234>>)
  @@ (Rep(0, 32) \o Rep(1, 32) \o <<11>> \o Rep(0, 15) \o <<100>> \o Rep(0, 7)
      :> <<44,94,37,2,174,166,252,138,5,3,80,24,87,57,54,84,190,169,6,128,189,187,243,250,228,181,110,116,174,94,17,197>>)
  @@ (Rep(0, 32) \o Rep(1, 32) \o <<12>> \o Rep(0, 15) \o <<100>> \o Rep(0, 7)
      :> <<171,1,241,213,244,141,108,96,103,203,1,76,40,122,170,68,139,93,46,125,143,206,141,202,181,189,94,130,72,234,221,195>>)
  @@ (Rep(0, 32) \o Rep(1, 32) \o <<10>> \o Rep(0, 15) \o <<101>> \o Rep(0, 7)
      :> <<62,191,222,138,57,173,36,9,131,129,41,120,63,246,213,86,202,58,223,118,180,148,146,159,130,83,49,238,137,126,197,190>>)
  @@ (Rep(0, 32) \o Rep(1, 32) \o <<11>> \o Rep(0, 15) \o <<101>> \o Rep(0, 7)
      :> <<211,59,85,203,201,56,134,46,162,20,130,191,58,175,221,7,20,205,37,232,142,47,160,195,210,247,91,209,144,199,187,181>>)
  @@ (Rep(0, 32) \o Rep(1, 32) \o <<12>> \o Rep(0, 15) \o <<101>> \o Rep(0, 7)
      :> <<146,199,91,3,57,46,20,43,125,192,52,213,191,111,6,178,0,227,50,25,150,134,94,83,128,197,33,62,227,101,135,237>>)
  @@ (Rep(0, 32) \o Rep(2, 32) \o <<10>> \o Rep(0, 15) \o <<100>> \o Rep(0, 7)
      :> <<78,181,39,213,46,247,27,40,2,81,205,33,24,47,104,225,101,22,28,112,1,36,155,32,191,15,48,182,26,97,115,10>>)
  @@ (Rep(0, 32) \o Rep(2, 32) \o <<11>> \o Rep(0, 15) \o <<100>> \o Rep(0, 7)
      :> <<142,121,50,123,229,72,80,232,110,86,203,134,189,225,166,84,199,35,87,196,184,227,212,96,97,70,153,207,168,165,133,92>>)
  @@ (Rep(0, 32) \o Rep(2, 32) \o <<12>> \o Rep(0, 15) \o <<100>> \o Rep(0, 7)
      :> <<205,246,129,59,70,104,188,220,206,185,198,199,73,61,101,242,242,69,11,206,207,76,95,176,74,224,130,161,20,18,27,132>>)
  @@ (Rep(0, 32) \o Rep(2, 32) \o <<10>> \o Rep(0, 15) \o <<101>> \o Rep(0, 7)
      :> <<63,228,142,81,36,104,55,104,185,157,160,109,55,118,203,110,2,216,126,116,237,8,18,67,189,135,225,103,39,68,134,226>>)
  @@ (Rep(0, 32) \o Rep(2, 32) \o <<11>> \o Rep(0, 15) \o <<101>> \o Rep(0, 7)
      :> <<210,66,49,162,8,196,73,83,96,103,236,44,117,71,37,230,250,86,20,117,217,139,133,151,45,225,60,237,56,162,110,140>>)
  @@ (Rep(0, 32) \o Rep(2, 32) \o <<12>> \o Rep(0, 15) \o <<101>> \o Rep(0, 7)
      :> <<125,60,159,10,136,0,54,167,84,109,110,200,107,9,104,10,116,203,77,246,157,110,253,147,181,41,29,151,150,101,248,39>>)
  @@ (Rep(0, 32) \o <<0>> \o Rep(0, 7) \o <<0>> \o Rep(0, 7)
      :> <<23,176,118,31,135,176,129,213,207,16,117,124,204,137,241,43,227,85,199,14,46,41,223,40,139,101,179,7,16,220,188,209>>)
  @@ (Rep(0, 32) \o <<1>> \o Rep(0, 7) \o <<0>> \o Rep(0, 7)
      :> <<215,233,49,42,236,88,231,210,47,127,242,30,204,162,130,197,177,203,214,71,99,82,102,82,181,84,63,160,177,3,231,101>>)
  @@ (Rep(0, 32) \o <<2>> \o Rep(0, 7) \o <<0>> \o Rep(0, 7)
      :> <<64,27,131,158,179,51,23,169,9,248,97,80,170,131,70,161,237,39,51,131,207,191,234,248,234,231,178,120,236,155,41,122>>)
  @@ (Rep(0, 32) \o <<3>> \o Rep(0, 7) \o <<0>> \o Rep(0, 7)
      :> <<130,95,146,129,1,225,213,74,69,191,38,43,174,119,20,5,233,156,77,50,155,194,230,7,166,218,253,193,178,181,164,21>>)
  @@ (Rep(0, 32) \o <<4>> \o Rep(0, 7) \o <<0>> \o Rep(0, 7)
      :> <<53,99,104,161,52,102,34,87,193,87,47,90,145,66,28,136,148,128,100,118,236,239,85,115,110,32,78,233,0,175,242,241>>)
  @@ (Rep(0, 32) \o <<5>> \o Rep(0, 7) \o <<0>> \o Rep(0, 7)
      :> <<36,209,113,90,252,52,254,11,132,238,164,28,67,240,71,47,168,14,170,159,175,137,18,44,56,86,180,203,141,62,107,139>>)
  @@ (Rep(0, 32) \o <<6>> \o Rep(0, 7) \o <<0>> \o Rep(0, 7)
      :> <<241,128,23,125,163,143,95,161,121,138,99,210,130,235,144,165,168,183,72,90,180,83,158,145,194,240,67,16,119,217,207,78>>)
  @@ (Rep(0, 32) \o <<7>> \o Rep(0, 7) \o <<0>> \o Rep(0, 7)
      :> <<226,214,124,197,34,137,10,108,156,181,208,254,244,125,227,161,146,188,225,86,107,50,8,149,247,66,66,6,228,187,81,88>>)
  @@ (Rep(0, 32) \o <<8>> \o Rep(0, 7) \o <<0>> \o Rep(0, 7)
      :> <<168,50,228,163,48,215,109,214,119,91,192,207,103,43,155,154,189,152,120,84,178,88,227,215,115,147,144,211,7,204,170,33>>)
  @@ (Rep(0, 32) \o <<9>> \o Rep(0, 7) \o <<0>> \o Rep(0, 7)
      :> <<10,63,44,131,69,53,80,171,31,166,59,47,119,78,248,93,36,252,175,24,231,78,157,69,179,226,150,48,208,24,224,55>>)
  @@ (Rep(0, 32) \o <<10>> \o Rep(0, 7) \o <<0>> \o Rep(0, 7)
      :> <<158,150,135,166,9,114,14,178,0,102,150,205,179,143,152,95,75,180,141,64,212,186,24,119,196,75,201,187,148,70,34,103>>)
  @@ (Rep(0, 32) \o <<11>> \o Rep(0, 7) \o <<0>> \o Rep(0, 7)
      :> <<155,236,242,236,107,79,243,49,253,63,47,73,169,52,134,152,13,90,125,95,1,185,13,193,14,77,0,241,217,8,0,18>>)
  @@ (Rep(0, 32) \o <<12>> \o Rep(0, 7) \o <<0>> \o Rep(0, 7)
      :> <<195,206,73,39,76,204,3,191,194,153,251,2,196,62,37,105,60,134,221,117,128,150,169,37,77,15,21,22,163,179,52,242>>)
  @@ (Rep(0, 32) \o <<13>> \o Rep(0, 7) \o <<0>> \o Rep(0, 7)
      :> <<157,223,67,18,87,246,181,161,107,24,197,228,157,40,30,119,161,202,139,217,152,67,63,34,244,87,230,26,77,29,184,79>>)
  @@ (Rep(0, 32) \o <<14>> \o Rep(0, 7) \o <<0>> \o Rep(0, 7)
      :> <<234,239,169,232,48,79,44,75,161,209,105,151,184,213,206,26,219,154,187,246,59,148,166,156,160,199,59,155,68,102,77,175>>)
  @@ (Rep(0, 32) \o <<15>> \o Rep(0, 7) \o <<0>> \o Rep(0, 7)
      :> <<225,148,241,160,249,119,254,245,178,87,82,241,164,65,208,77,222,253,3,169,56,180,252,205,65,152,190,166,85,67,141,172>>)
  @@ (Rep(0, 32) \o <<16>> \o Rep(0, 7) \o <<0>> \o Rep(0, 7)
      :> <<26,253,118,227,224,65,190,48,205,138,188,163,10,202,165,48,196,154,182,214,205,86,159,8,208,240,183,30,64,109,87,211>>)
  @@ (Rep(0, 32) \o <<17>> \o Rep(0, 7) \o <<0>> \o Rep(0, 7)
      :> <<88,46,88,215,211,164,91,5,210,236,16,74,246,244,85,168,121,162,117,224,225,141,15,36,154,104,220,85,183,204,138,228>>)
  @@ (Rep(0, 32) \o <<18>> \o Rep(0, 7) \o <<0>> \o Rep(0, 7)
      :> <<245,192,235,35,84,117,149,250,118,135,66,246,114,150,122,41,47,51,66,129,202,198,93,234,162,69,18,98,209,207,202,73>>)
  @@ (Rep(0, 32) \o <<19>> \o Rep(0, 7) \o <<0>> \o Rep(0, 7)
      :> <<159,205,201,42,234,4,31,252,61,146,227,195,216,11,205,226,118,144,220,140,184,23,110,75,121,227,9,199,72,244,246,41>>)
  @@ (Rep(0, 32) \o <<20>> \o Rep(0, 7) \o <<0>> \o Rep(0, 7)
      :> <<30,183,95,10,43,88,61,149,64,238,21,68,239,155,238,180,95,10,36,255,171,198,228,223,118,196,183,145,184,227,42,92>>)
  @@ (Rep(0, 32) \o <<21>> \o Rep(0, 7) \o <<0>> \o Rep(0, 7)
      :> <<226,197,106,187,155,21,143,133,91,183,38,17,199,100,162,229,1,82,101,2,164,175,176,192,17,237,14,181,160,133,14,97>>)
  @@ (Rep(0, 32) \o <<22>> \o Rep(0, 7) \o <<0>> \o Rep(0, 7)
      :> <<119,87,193,128,255,48,209,15,74,77,107,57,79,222,191,169,75,115,34,240,123,57,141,181,58,165,139,199,112,15,120,27>>)
  @@ (Rep(0, 32) \o <<23>> \o Rep(0, 7) \o <<0>> \o Rep(0, 7)
      :> <<16,62,60,135,233,125,34,94,91,171,96,194,245,63,26,137,47,59,41,31,38,95,120,97,55,166,163,11,1,251,46,210>>)

\* a message outside the table is outside the model's input domain
Sha256(message) ==
  IF message \in DOMAIN Sha256Table THEN Sha256Table[message] ELSE Rep(255, 32)

(***************************************************************************)
(* pow.rs: the Proof Function.                                             *)
(***************************************************************************)
\* what the four hasher.update calls feed to SHA-256
pow_message(challenge, miner_pubkey, nonce, block_number) ==
  challenge \o miner_pubkey \o to_le_bytes(nonce, 16)
    \o to_le_bytes(block_number, 8)

compute_hash(challenge, miner_pubkey, nonce, block_number) ==
  Sha256(pow_message(challenge, miner_pubkey, nonce, block_number))

\* the comparison of verify_nonce turned round
verify_nonce_Inverted(challenge, miner_pubkey, nonce, block_number, target) ==
  LET hash == compute_hash(challenge, miner_pubkey, nonce, block_number)
      hash_value == from_le_bytes(SubSeq(hash, 1, 16))
  IN  U128Less(target, hash_value)

verify_nonce(challenge, miner_pubkey, nonce, block_number, target) ==
  LET hash == compute_hash(challenge, miner_pubkey, nonce, block_number)
      hash_value == from_le_bytes(SubSeq(hash, 1, 16))
  IN  U128Less(hash_value, target)

(***************************************************************************)
(* Inputs of a search.                                                     *)
(***************************************************************************)
\* a challenge or a miner identity [b; 32] is held as its byte b
Challenges == {0}

MinerPubkeys == {1, 2}

BlockNumbers == {100}

U128_ZERO == [i \in 1..8 |-> 0]

\* u128::MAX / difficulty for the difficulties 1, 2, 4 and 16, and 0
Targets ==
  {U128Div(U128_MAX, 1), U128Div(U128_MAX, 2), U128Div(U128_MAX, 4),
   U128Div(U128_MAX, 16), U128_ZERO}

Backends == {"CpuMiner", "SimpleCpuMiner", "CudaMiner"}

\* Option<u128>, and what a call has produced so far
None == <<"None">>

Some(v) == <<"Some", v>>

Pending == <<"Pending">>

Panicked == <<"Panic">>

VARIABLES
  challenge,          \* the challenge [b; 32] of the search, as b
  miner_pubkey,       \* the miner identity [b; 32], as b
  block_number,
  pc,                 \* position of the caller of mine
  ret,                \* what mine returned
  backend,            \* which MinerBackend the call is made on
  target, max_nonce,
  threads,            \* CpuMiner.threads
  found,              \* CpuMiner::mine: Arc<AtomicBool>
  result,             \* CpuMiner::mine: Arc<Mutex<u128>>
  wpc,                \* CpuMiner::mine: position of each worker closure
  wnonce,             \* CpuMiner::mine: each worker's `nonce`
  scanned,            \* per worker, the nonces handed to verify_nonce, in order
  after_found,        \* per worker, the candidates it evaluated with `found` already set
  writes,             \* the writes to `result`, in order: <<thread_id, nonce>>
  s_nonce,            \* SimpleCpuMiner::mine: `nonce`
  threads_per_block, num_blocks,   \* CudaMiner launch configuration
  start_nonce,        \* CudaMiner::mine: `start_nonce`
  d_found, d_result,  \* CudaMiner::mine: device buffers
  launches,           \* CudaMiner::mine: the launches: <<start, count, stop, lanes>>
  stop_requested,     \* an external controller has asked the search to stop
  after_stop,         \* candidates evaluated since the stop was requested
  nonce_in,           \* Proof Function check: the nonce all backends are given
  pow_out,            \* ... and what pow.rs, cpu::mine_batch and the OpenCL
  batch_out,          \*     kernel make of it: [message, hash, valid]
  kernel_out,
  difficulty,         \* cpu::mine, gpu::mine: `difficulty`
  running,            \* cpu::mine, gpu::mine: Arc<AtomicBool>
  hash_counter,       \* cpu::mine, gpu::mine: Arc<AtomicU64>
  batch_start,        \* cpu::mine: `batch_start`
  batches,            \* cpu::mine: the (start, end) of the round's batches
  bpc,                \* cpu::mine: position of each mine_batch call
  bnonce,             \* cpu::mine: each mine_batch's `nonce`
  bres,               \* cpu::mine: what each mine_batch returned
  b_after,            \* per batch, candidates hashed since running was cleared
  round_after_stop,   \* a round was started after running was cleared
  gpu_start_nonce,    \* gpu::mine: `start_nonce`
  found_buf,          \* gpu::mine: found_buf
  result_nonce_buf,   \* gpu::mine: result_nonce_buf
  result_hash_buf,    \* gpu::mine: result_hash_buf
  lpc,                \* OpenCL kernel: position of each lane of the launch
  writers,            \* lanes that wrote a result buffer in this launch
  launches_after_stop,\* launches enqueued since running was cleared
  cli_backend,        \* main: cli.backend
  cli_threads,        \* main: cli.threads (Option<usize>)
  cli_benchmark,      \* main: cli.benchmark
  challenge_hex,      \* main: cli.challenge (Option<String>, as characters)
  miner_pubkey_hex,   \* main: cli.miner_pubkey (Option<String>, as characters)
  feature_cuda,       \* build: cfg(feature = "cuda")
  feature_opencl,     \* build: cfg(feature = "opencl")
  num_cpus,           \* what num_cpus::get returns
  attempts,           \* main: the backend constructors called, in order
  miner,              \* main: the selected Box<dyn MinerBackend>
  bench_challenge,    \* run_benchmark: the decoded challenge
  bench_miner_pubkey, \* run_benchmark: the decoded miner identity
  mine_calls,         \* run_benchmark: arguments of the calls of miner.mine
  uncounted,          \* digests computed by a search minus what it added to hash_counter
  call_in,            \* Proof Function calls: the arguments of each call
  call_pc,            \* Proof Function calls: position of each call
  hasher,             \* compute_hash: the bytes fed to each call's Sha256 hasher
  call_out,           \* Proof Function calls: message hashed, digest, verdict
  prev_out,           \* Proof Function calls: result of the caller's previous call
  hash_in,            \* cpu::is_valid_hash: the hash argument
  is_valid_out,       \* cpu::is_valid_hash: the verdict, once computed
  kernel_valid_out,   \* OpenCL kernel is_valid_hash: the verdict, once computed
  part_in,            \* CpuMiner::mine partition: max_nonce, threads, thread_id
  part_out,           \* ... and chunk_size, start, end, nonce as computed
  bench_pc,           \* cpu::benchmark_cpu: position of the benchmark thread
  bench_hashes        \* cpu::benchmark_cpu: `hashes`

challenge_bytes == Rep(challenge, 32)

miner_pubkey_bytes == Rep(miner_pubkey, 32)

proof_vars == <<nonce_in, pow_out, batch_out, kernel_out>>

search_vars == <<difficulty, running, hash_counter>>

batch_vars == <<batch_start, batches, bpc, bnonce, bres, b_after, round_after_stop>>

gpu_vars == <<gpu_start_nonce, found_buf, result_nonce_buf, result_hash_buf,
              lpc, writers, launches_after_stop>>

pure_vars == <<call_in, call_pc, hasher, call_out, prev_out, hash_in, is_valid_out,
               kernel_valid_out>>

partition_vars == <<part_in, part_out>>

bench_vars == <<bench_pc, bench_hashes>>

main_vars == <<cli_backend, cli_threads, cli_benchmark, challenge_hex,
               miner_pubkey_hex, feature_cuda, feature_opencl, num_cpus,
               attempts, miner, bench_challenge, bench_miner_pubkey, mine_calls>>

\* what the MinerBackend implementations never touch
not_backend == <<proof_vars, search_vars, batch_vars, gpu_vars, main_vars,
                 uncounted, pure_vars, partition_vars, bench_vars>>

inputs == <<backend, challenge, miner_pubkey, block_number, target, max_nonce,
            threads, threads_per_block, num_blocks>>

cpu_vars == <<found, result, wpc, wnonce, scanned, after_found, writes>>

cuda_vars == <<start_nonce, d_found, d_result, launches>>

\* what only the MinerBackend implementations touch
backend_vars == <<backend, max_nonce, threads_per_block, num_blocks, cpu_vars,
                  s_nonce, cuda_vars, stop_requested, after_stop>>

vars == <<challenge, miner_pubkey, block_number, target, threads, pc, ret,
          backend_vars, proof_vars, search_vars, batch_vars, gpu_vars,
          main_vars, uncounted, pure_vars, partition_vars, bench_vars>>

\* a Proof Function output not computed yet; the variables of a part of the
\* program that is not running
NotComputed == [message |-> <<>>, hash |-> <<>>, valid |-> FALSE]

IdleProof ==
  /\ nonce_in = 0
  /\ pow_out = NotComputed
  /\ batch_out = NotComputed
  /\ kernel_out = NotComputed

IdlePure ==
  /\ call_in = <<>>
  /\ call_pc = <<>>
  /\ hasher = <<>>
  /\ call_out = <<>>
  /\ prev_out = <<>>
  /\ hash_in = <<>>
  /\ is_valid_out = <<>>
  /\ kernel_valid_out = <<>>

\* everything but the variables of the partition arithmetic
not_partition == <<challenge, miner_pubkey, block_number, target, threads, ret,
                   backend_vars, proof_vars, search_vars, batch_vars, gpu_vars,
                   main_vars, uncounted, pure_vars, bench_vars>>

IdleBench ==
  /\ bench_pc = "none"
  /\ bench_hashes = 0

IdlePartition ==
  /\ part_in = <<>>
  /\ part_out = <<>>

IdleMain ==
  /\ cli_backend = "auto"
  /\ cli_threads = None
  /\ cli_benchmark = FALSE
  /\ challenge_hex = None
  /\ miner_pubkey_hex = None
  /\ feature_cuda = FALSE
  /\ feature_opencl = FALSE
  /\ num_cpus = 1
  /\ attempts = <<>>
  /\ miner = None
  /\ bench_challenge = None
  /\ bench_miner_pubkey = None
  /\ mine_calls = <<>>

IdleSearch ==
  /\ difficulty = 1
  /\ running = TRUE
  /\ hash_counter = 0
  /\ uncounted = 0

IdleBatch ==
  /\ batch_start = 0
  /\ batches = <<>>
  /\ bpc = <<>>
  /\ bnonce = <<>>
  /\ bres = <<>>
  /\ b_after = <<>>
  /\ round_after_stop = FALSE

IdleGpu ==
  /\ gpu_start_nonce = 0
  /\ found_buf = 0
  /\ result_nonce_buf = 0
  /\ result_hash_buf = Rep(0, 32)
  /\ lpc = <<>>
  /\ writers = {}
  /\ launches_after_stop = 0

(***************************************************************************)
(* miner.rs: CpuMiner::mine.                                               *)
(***************************************************************************)
\* chunk_size rounded up instead of down
chunk_size_RoundedUp(mn, th) == (mn + th - 1) \div th

\* let chunk_size = max_nonce / (self.threads as u128);
chunk_size(mn, th) == mn \div th

\* the sub-range starts at the thread id, not at thread_id * chunk_size
range_start_Unscaled(thread_id, mn, th) == thread_id

\* let start = thread_id as u128 * chunk_size;
range_start(thread_id, mn, th) == thread_id * chunk_size(mn, th)

\* the last worker does not absorb the remainder of the division
range_end_NoRemainder(thread_id, mn, th) == (thread_id + 1) * chunk_size(mn, th)

\* let end = if thread_id == self.threads - 1 { max_nonce } else { ... };
range_end(thread_id, mn, th) ==
  IF thread_id = th - 1 THEN mn ELSE (thread_id + 1) * chunk_size(mn, th)

Workers == IF backend = "CpuMiner" /\ threads > 0 THEN 0..(threads - 1) ELSE {}

\* one more candidate evaluated, counted when a stop has been requested
Evaluated(n) == IF stop_requested THEN after_stop + n ELSE after_stop

\* max_nonce / 0 panics before any worker starts
CpuMinerDivideByZero ==
  /\ backend = "CpuMiner" /\ pc = "mining" /\ threads = 0
  /\ pc' = "returned"
  /\ ret' = Panicked
  /\ UNCHANGED <<not_backend, inputs, cpu_vars, s_nonce, cuda_vars, stop_requested, after_stop>>

\* a worker at the end of its sub-range waits for the found flag
WorkerLoop_SpinsAtEnd(t) ==
  /\ pc = "mining" /\ t \in Workers /\ wpc[t] = "loop"
  /\ \E seen \in {FALSE, found} :
       wpc' = [wpc EXCEPT ![t] =
                 IF seen THEN "done"
                 ELSE IF wnonce[t] < range_end(t, max_nonce, threads)
                 THEN "verify" ELSE "loop"]
  /\ UNCHANGED <<not_backend, inputs, found, result, wnonce, scanned, after_found, writes, s_nonce,
                 cuda_vars, stop_requested, after_stop, pc, ret>>

\* while nonce < end { if found.load(Relaxed) { break; } ...
\* The Relaxed load is ordered with nothing: it returns the value another
\* worker stored or the older one, seen.  A worker that stored the flag
\* itself has left its loop and loads no more.
WorkerLoop(t) ==
  /\ pc = "mining" /\ t \in Workers /\ wpc[t] = "loop"
  /\ \E seen \in {FALSE, found} :
       wpc' = [wpc EXCEPT ![t] =
                 IF wnonce[t] < range_end(t, max_nonce, threads) /\ ~seen
                 THEN "verify" ELSE "done"]
  /\ UNCHANGED <<not_backend, inputs, found, result, wnonce, scanned, after_found, writes, s_nonce,
                 cuda_vars, stop_requested, after_stop, pc, ret>>

\* the loop body without `nonce += 1`
WorkerVerify_NoIncrement(t) ==
  /\ pc = "mining" /\ t \in Workers /\ wpc[t] = "verify"
  /\ scanned' = [scanned EXCEPT ![t] = Append(@, wnonce[t])]
  /\ after_found' = [after_found EXCEPT ![t] = IF found THEN @ + 1 ELSE @]
  /\ after_stop' = Evaluated(1)
  /\ IF verify_nonce(challenge_bytes, miner_pubkey_bytes, wnonce[t], block_number, target)
     THEN /\ wpc' = [wpc EXCEPT ![t] = "store"]
          /\ wnonce' = wnonce
     ELSE /\ wpc' = [wpc EXCEPT ![t] = "loop"]
          /\ wnonce' = wnonce
  /\ UNCHANGED <<not_backend, inputs, found, result, writes, s_nonce, cuda_vars,
                 stop_requested, pc, ret>>

\* if pow::verify_nonce(...) { ... } ... nonce += 1;
WorkerVerify(t) ==
  /\ pc = "mining" /\ t \in Workers /\ wpc[t] = "verify"
  /\ scanned' = [scanned EXCEPT ![t] = Append(@, wnonce[t])]
  /\ after_found' = [after_found EXCEPT ![t] = IF found THEN @ + 1 ELSE @]
  /\ after_stop' = Evaluated(1)
  /\ IF verify_nonce(challenge_bytes, miner_pubkey_bytes, wnonce[t], block_number, target)
     THEN /\ wpc' = [wpc EXCEPT ![t] = "store"]
          /\ wnonce' = wnonce
     ELSE /\ wpc' = [wpc EXCEPT ![t] = "loop"]
          /\ wnonce' = [wnonce EXCEPT ![t] = @ + 1]
  /\ UNCHANGED <<not_backend, inputs, found, result, writes, s_nonce, cuda_vars,
                 stop_requested, pc, ret>>

\* found.store(true, Ordering::Relaxed);
WorkerStore(t) ==
  /\ pc = "mining" /\ t \in Workers /\ wpc[t] = "store"
  /\ found' = TRUE
  /\ wpc' = [wpc EXCEPT ![t] = "write"]
  /\ UNCHANGED <<not_backend, inputs, result, wnonce, scanned, after_found, writes, s_nonce, cuda_vars,
                 stop_requested, after_stop, pc, ret>>

\* the nonce written after `nonce += 1`
WorkerWrite_AfterIncrement(t) ==
  /\ pc = "mining" /\ t \in Workers /\ wpc[t] = "write"
  /\ result' = wnonce[t] + 1
  /\ writes' = Append(writes, <<t, wnonce[t] + 1>>)
  /\ wpc' = [wpc EXCEPT ![t] = "done"]
  /\ UNCHANGED <<not_backend, inputs, found, wnonce, scanned, after_found, s_nonce, cuda_vars,
                 stop_requested, after_stop, pc, ret>>

\* *result.lock().unwrap() = nonce; break;
WorkerWrite(t) ==
  /\ pc = "mining" /\ t \in Workers /\ wpc[t] = "write"
  /\ result' = wnonce[t]
  /\ writes' = Append(writes, <<t, wnonce[t]>>)
  /\ wpc' = [wpc EXCEPT ![t] = "done"]
  /\ UNCHANGED <<not_backend, inputs, found, wnonce, scanned, after_found, s_nonce, cuda_vars,
                 stop_requested, after_stop, pc, ret>>

\* the result slot returned without looking at the found flag
CpuMinerReturn_NoFoundCheck ==
  /\ backend = "CpuMiner" /\ pc = "mining" /\ threads > 0
  /\ \A t \in Workers : wpc[t] = "done"
  /\ ret' = Some(result)
  /\ pc' = "returned"
  /\ UNCHANGED <<not_backend, inputs, cpu_vars, s_nonce, cuda_vars, stop_requested, after_stop>>

\* install returns once every worker is done, which orders every worker's
\* store before this load:
\* if found.load(Relaxed) { Some(*result.lock().unwrap()) } else { None }
CpuMinerReturn ==
  /\ backend = "CpuMiner" /\ pc = "mining" /\ threads > 0
  /\ \A t \in Workers : wpc[t] = "done"
  /\ ret' = IF found THEN Some(result) ELSE None
  /\ pc' = "returned"
  /\ UNCHANGED <<not_backend, inputs, cpu_vars, s_nonce, cuda_vars, stop_requested, after_stop>>

(***************************************************************************)
(* miner.rs: SimpleCpuMiner::mine, one loop iteration per step.            *)
(***************************************************************************)
\* the loop written `while nonce <= max_nonce`
SimpleCpuMinerStep_Inclusive ==
  /\ backend = "SimpleCpuMiner" /\ pc = "mining"
  /\ IF s_nonce <= max_nonce
     THEN /\ after_stop' = Evaluated(1)
          /\ scanned' = [scanned EXCEPT ![0] = Append(@, s_nonce)]
          /\ IF verify_nonce(challenge_bytes, miner_pubkey_bytes, s_nonce, block_number, target)
             THEN /\ ret' = Some(s_nonce)
                  /\ pc' = "returned"
                  /\ s_nonce' = s_nonce
             ELSE /\ s_nonce' = s_nonce + 1
                  /\ UNCHANGED <<pc, ret>>
     ELSE /\ ret' = None
          /\ pc' = "returned"
          /\ UNCHANGED <<s_nonce, scanned, after_stop>>
  /\ UNCHANGED <<not_backend, inputs, found, result, wpc, wnonce, after_found, writes,
                 cuda_vars, stop_requested>>

SimpleCpuMinerStep ==
  /\ backend = "SimpleCpuMiner" /\ pc = "mining"
  /\ IF s_nonce < max_nonce
     THEN /\ after_stop' = Evaluated(1)
          /\ scanned' = [scanned EXCEPT ![0] = Append(@, s_nonce)]
          /\ IF verify_nonce(challenge_bytes, miner_pubkey_bytes, s_nonce, block_number, target)
             THEN /\ ret' = Some(s_nonce)
                  /\ pc' = "returned"
                  /\ s_nonce' = s_nonce
             ELSE /\ s_nonce' = s_nonce + 1
                  /\ UNCHANGED <<pc, ret>>
     ELSE /\ ret' = None
          /\ pc' = "returned"
          /\ UNCHANGED <<s_nonce, scanned, after_stop>>
  /\ UNCHANGED <<not_backend, inputs, found, result, wpc, wnonce, after_found, writes,
                 cuda_vars, stop_requested>>

(***************************************************************************)
(* cuda_miner.rs: CudaMiner::mine (feature "cuda").  The kernel            *)
(* mine_block lives in kernels/sha256_mining.ptx; mine_block below is      *)
(* what the specification says of it: a launch is of fixed size, every     *)
(* lane of the launched grid evaluates exactly one nonce, lane i the nonce *)
(* start_nonce + i, with the Proof Function, and the first lane to find a  *)
(* valid nonce records it through an atomic compare-and-set.  The          *)
(* specification gives the kernel no other bound than the grid.            *)
(***************************************************************************)
\* scaled-down u64::MAX
U64_MAX == 11

\* let max_nonce_u64 = if max_nonce > u64::MAX as u128 { u64::MAX } else { .. };
max_nonce_u64(mn) == IF mn > U64_MAX THEN U64_MAX ELSE mn

\* let nonce_count = (self.threads_per_block * self.num_blocks) as u64;
nonce_count(tpb, nb) == tpb * nb

Min(a, b) == IF a < b THEN a ELSE b

\* let current_nonce_count = (max_nonce_u64 - start_nonce).min(nonce_count);
current_nonce_count(mn, start, tpb, nb) ==
  Min(max_nonce_u64(mn) - start, nonce_count(tpb, nb))

\* scaled-down 2^32
U32_MODULUS == 4

\* self.num_blocks as u32, self.threads_per_block as u32
as_u32(x) == x % U32_MODULUS

\* LaunchConfig { grid_dim: (num_blocks as u32, 1, 1),
\*                block_dim: (threads_per_block as u32, 1, 1), .. }:
\* the lanes of a launch, whatever current_nonce_count is
launch_lanes(tpb, nb) == as_u32(nb) * as_u32(tpb)

\* the nonces a launch of mine_block can record: those of its lanes that
\* are valid, lane i evaluating start + i in 64 bits
mine_block(start, lanes) ==
  {n \in {(start + i) % (U64_MAX + 1) : i \in 0..(lanes - 1)} :
     verify_nonce(challenge_bytes, miner_pubkey_bytes, n, block_number, target)}

\* htod_copy / alloc_zeros of the five device buffers
CudaMinerAlloc ==
  /\ backend = "CudaMiner" /\ pc = "mining"
  /\ d_found' = 0
  /\ d_result' = 0
  /\ start_nonce' = 0
  /\ pc' = "loop"
  /\ UNCHANGED <<not_backend, inputs, cpu_vars, s_nonce, launches, stop_requested,
                 after_stop, ret>>

\* while start_nonce < max_nonce_u64 { ... kernel.launch(cfg, params) ...
CudaMinerLaunch ==
  /\ backend = "CudaMiner" /\ pc = "loop"
  /\ start_nonce < max_nonce_u64(max_nonce)
  /\ LET count == current_nonce_count(max_nonce, start_nonce,
                                      threads_per_block, num_blocks)
         lanes == launch_lanes(threads_per_block, num_blocks)
         winners == mine_block(start_nonce, lanes)
     IN  /\ launches' = Append(launches, <<start_nonce, count, stop_requested, lanes>>)
         /\ after_stop' = Evaluated(lanes)
         /\ IF winners # {} /\ d_found = 0
            THEN /\ d_found' = 1
                 /\ d_result' \in winners
            ELSE UNCHANGED <<d_found, d_result>>
  /\ pc' = "check"
  /\ UNCHANGED <<not_backend, inputs, cpu_vars, s_nonce, start_nonce, stop_requested, ret>>

\* let found = dtoh_sync_copy(&d_found); if found[0] == 1 { return Some(..) }
\* start_nonce += current_nonce_count;
CudaMinerCheck ==
  /\ backend = "CudaMiner" /\ pc = "check"
  /\ IF d_found = 1
     THEN /\ ret' = Some(d_result)
          /\ pc' = "returned"
          /\ UNCHANGED start_nonce
     ELSE /\ start_nonce' = start_nonce +
               current_nonce_count(max_nonce, start_nonce,
                                   threads_per_block, num_blocks)
          /\ pc' = "loop"
          /\ UNCHANGED ret
  /\ UNCHANGED <<not_backend, inputs, cpu_vars, s_nonce, d_found, d_result, launches,
                 stop_requested, after_stop>>

\* the loop ends: None
CudaMinerExhausted ==
  /\ backend = "CudaMiner" /\ pc = "loop"
  /\ ~(start_nonce < max_nonce_u64(max_nonce))
  /\ ret' = None
  /\ pc' = "returned"
  /\ UNCHANGED <<not_backend, inputs, cpu_vars, s_nonce, cuda_vars, stop_requested, after_stop>>

\* a device operation fails: `.ok()?` (and get_func's `?`) return None
CudaMinerDeviceError ==
  /\ backend = "CudaMiner" /\ pc \in {"mining", "loop", "check"}
  /\ pc = "loop" => start_nonce < max_nonce_u64(max_nonce)
  /\ ret' = None
  /\ pc' = "returned"
  /\ UNCHANGED <<not_backend, inputs, cpu_vars, s_nonce, cuda_vars, stop_requested, after_stop>>

(***************************************************************************)
(* The caller and the external controller.                                 *)
(***************************************************************************)
\* an external controller asks the search to stop; MinerBackend::mine
\* takes no cancellation flag, so the request is all there is
RequestStop ==
  /\ pc # "returned" /\ ~stop_requested
  /\ stop_requested' = TRUE
  /\ UNCHANGED <<not_backend, inputs, cpu_vars, s_nonce, cuda_vars, after_stop, pc, ret>>

Init ==
  /\ backend \in Backends
  /\ challenge \in Challenges
  /\ miner_pubkey \in MinerPubkeys
  /\ block_number \in BlockNumbers
  /\ target \in Targets
  /\ max_nonce \in 0..MaxNonceBound \cup
                  (IF backend = "CudaMiner" THEN {U64_MAX + 1} ELSE {})
  /\ threads \in IF backend = "CpuMiner" THEN 0..MaxThreads ELSE {1}
  /\ threads_per_block \in IF backend = "CudaMiner" THEN 1..MaxLaunchDim ELSE {1}
  /\ num_blocks \in IF backend = "CudaMiner" THEN 1..MaxLaunchDim ELSE {1}
  /\ found = FALSE
  /\ result = 0
  /\ wpc = [t \in Workers |-> "loop"]
  /\ wnonce = [t \in Workers |-> range_start(t, max_nonce, threads)]
  /\ scanned = [t \in Workers \cup {0} |-> <<>>]
  /\ after_found = [t \in Workers |-> 0]
  /\ writes = <<>>
  /\ s_nonce = 0
  /\ start_nonce = 0
  /\ d_found = 0
  /\ d_result = 0
  /\ launches = <<>>
  /\ stop_requested = FALSE
  /\ after_stop = 0
  /\ pc = "mining"
  /\ ret = Pending
  /\ IdleProof /\ IdleSearch /\ IdleBatch /\ IdleGpu /\ IdleMain /\ IdlePure
  /\ IdlePartition /\ IdleBench

Next ==
  \/ CpuMinerDivideByZero
  \/ \E t \in 0..(MaxThreads - 1) :
       WorkerLoop(t) \/ WorkerVerify(t) \/ WorkerStore(t) \/ WorkerWrite(t)
  \/ CpuMinerReturn
  \/ SimpleCpuMinerStep
  \/ CudaMinerAlloc
  \/ CudaMinerLaunch
  \/ CudaMinerCheck
  \/ CudaMinerExhausted
  \/ CudaMinerDeviceError

Spec == Init /\ [][Next]_vars

\* the operating system runs the threads that can run: as long as a worker
\* closure or the calling thread has a step to take, a step is taken
SpecFair == Spec /\ WF_vars(Next)

\* the same with the external controller
NextStop == Next \/ RequestStop

SpecStop == Init /\ [][NextStop]_vars

(***************************************************************************)
(* cpu.rs: the batch search.                                               *)
(***************************************************************************)
\* scaled-down BATCH_SIZE (cpu.rs: 10_000)
BATCH_SIZE == 4

\* scaled-down interval of the running poll of mine_batch (cpu.rs: 1000)
CHECK_EVERY == 2

\* largest thread count of cpu::mine
MaxBatchThreads == 2

\* how far hash_counter may run ahead of the digests computed before the
\* model stops following a search
MaxOvercount == 6

\* u64 arithmetic wraps at 2^64, scaled down with U64_MAX
U64_MODULUS == U64_MAX + 1

wrapping_add(a, b) == (a + b) % U64_MODULUS

Difficulties == {0, 1, 2, 16, 256}

\* Result<Option<(u64, [u8; 32])>>
Ok(v) == <<"Ok", v>>

Err == <<"Err">>

\* message[..32] = challenge; message[32..40] = nonce; message[40..48] = block_number
batch_message(ch, bn, nonce) ==
  ch \o to_le_bytes(nonce, 8) \o to_le_bytes(bn, 8)

\* a hash value equal to the target accepted
is_valid_hash_AcceptsEqual(hash, tg) ==
  LET hash_value == from_le_bytes(SubSeq(hash, 1, 16))
  IN  U128Less(hash_value, tg) \/ hash_value = tg

\* fn is_valid_hash(hash: &[u8], target: u128) -> bool
is_valid_hash(hash, tg) ==
  LET hash_value == from_le_bytes(SubSeq(hash, 1, 16))
  IN  U128Less(hash_value, tg)

\* let batch_count = threads as u64; let total_batch = BATCH_SIZE * batch_count;
total_batch(th) == BATCH_SIZE * th

\* the (start, end) of batch i (from 0) of a round
batch_range(bs, i) ==
  LET start == wrapping_add(bs, i * BATCH_SIZE)
      end == wrapping_add(start, BATCH_SIZE)
  IN  <<start, end>>

BatchIds == 1..Len(batches)

BatchFound == {i \in BatchIds : bres[i] # None}

\* one more candidate hashed by batch i, counted once running is cleared
HashedAfterStop(i) ==
  IF running THEN b_after ELSE [b_after EXCEPT ![i] = @ + 1]

\* let target = u128::MAX / difficulty;  with difficulty = 0
BatchMineDivideByZero ==
  /\ pc = "batch_mine" /\ difficulty = 0
  /\ ret' = Panicked
  /\ pc' = "returned"
  /\ UNCHANGED <<main_vars, uncounted, pure_vars, partition_vars, bench_vars, challenge, miner_pubkey, block_number, target, threads,
                 backend_vars, proof_vars, search_vars, batch_vars, gpu_vars>>

\* let target = u128::MAX / difficulty; let start_nonce: u64 = rand::random();
BatchMineSetup ==
  /\ pc = "batch_mine" /\ difficulty # 0
  /\ target' = U128Div(U128_MAX, difficulty)
  /\ batch_start' \in 0..U64_MAX
  /\ pc' = "batch_loop"
  /\ UNCHANGED <<main_vars, uncounted, pure_vars, partition_vars, bench_vars, challenge, miner_pubkey, block_number, threads, ret,
                 backend_vars, proof_vars, search_vars, batches, bpc, bnonce,
                 bres, b_after, round_after_stop, gpu_vars>>

\* a round is started without a look at the running flag
BatchMineLoop_IgnoresRunning ==
  /\ pc = "batch_loop"
  /\ uncounted > -MaxOvercount
  /\ batches' = [i \in 1..threads |-> batch_range(batch_start, i - 1)]
  /\ bpc' = [i \in 1..threads |-> "pending"]
  /\ bnonce' = [i \in 1..threads |-> batch_range(batch_start, i - 1)[1]]
  /\ bres' = [i \in 1..threads |-> None]
  /\ b_after' = [i \in 1..threads |-> 0]
  /\ round_after_stop' = (round_after_stop \/ ~running)
  /\ pc' = "batch_round"
  /\ UNCHANGED ret
  /\ UNCHANGED <<main_vars, uncounted, pure_vars, partition_vars, bench_vars, challenge, miner_pubkey, block_number, target, threads,
                 backend_vars, proof_vars, search_vars, batch_start, gpu_vars>>

\* while running.load(Relaxed) { let batches = ...  } Ok(None)
\* (a search is followed until hash_counter is MaxOvercount hashes ahead)
BatchMineLoop ==
  /\ pc = "batch_loop"
  /\ running => uncounted > -MaxOvercount
  /\ IF running
     THEN /\ batches' = [i \in 1..threads |-> batch_range(batch_start, i - 1)]
          /\ bpc' = [i \in 1..threads |-> "pending"]
          /\ bnonce' = [i \in 1..threads |-> batch_range(batch_start, i - 1)[1]]
          /\ bres' = [i \in 1..threads |-> None]
          /\ b_after' = [i \in 1..threads |-> 0]
          /\ round_after_stop' = (round_after_stop \/ ~running)
          /\ pc' = "batch_round"
          /\ UNCHANGED ret
     ELSE /\ ret' = Ok(None)
          /\ pc' = "returned"
          /\ UNCHANGED <<batches, bpc, bnonce, bres, b_after, round_after_stop>>
  /\ UNCHANGED <<main_vars, uncounted, pure_vars, partition_vars, bench_vars, challenge, miner_pubkey, block_number, target, threads,
                 backend_vars, proof_vars, search_vars, batch_start, gpu_vars>>

\* find_map_any hands batch i to mine_batch
BatchBegin(i) ==
  /\ pc = "batch_round" /\ i \in BatchIds /\ bpc[i] = "pending"
  /\ bpc' = [bpc EXCEPT ![i] = "poll"]
  /\ UNCHANGED <<main_vars, uncounted, pure_vars, partition_vars, bench_vars, challenge, miner_pubkey, block_number, target, threads, pc, ret,
                 backend_vars, proof_vars, search_vars, batch_start, batches,
                 bnonce, bres, b_after, round_after_stop, gpu_vars>>

\* find_map_any drops a batch not yet started once another one has found
BatchSkip(i) ==
  /\ pc = "batch_round" /\ i \in BatchIds /\ bpc[i] = "pending"
  /\ BatchFound # {}
  /\ bpc' = [bpc EXCEPT ![i] = "done"]
  /\ UNCHANGED <<main_vars, uncounted, pure_vars, partition_vars, bench_vars, challenge, miner_pubkey, block_number, target, threads, pc, ret,
                 backend_vars, proof_vars, search_vars, batch_start, batches,
                 bnonce, bres, b_after, round_after_stop, gpu_vars>>

\* mine_batch never looks at the running flag
BatchPoll_NeverPolls(i) ==
  /\ pc = "batch_round" /\ i \in BatchIds /\ bpc[i] = "poll"
  /\ bpc' = [bpc EXCEPT ![i] =
               IF bnonce[i] < batches[i][2] THEN "hash" ELSE "done"]
  /\ UNCHANGED <<main_vars, uncounted, pure_vars, partition_vars, bench_vars, challenge, miner_pubkey, block_number, target, threads, pc, ret,
                 backend_vars, proof_vars, search_vars, batch_start, batches,
                 bnonce, bres, b_after, round_after_stop, gpu_vars>>

\* for nonce in start..end { if nonce % 1000 == 0 && !running.load(Relaxed)
\*                             { return None; } ...
BatchPoll(i) ==
  /\ pc = "batch_round" /\ i \in BatchIds /\ bpc[i] = "poll"
  /\ bpc' = [bpc EXCEPT ![i] =
               IF bnonce[i] < batches[i][2]
                  /\ ~(bnonce[i] % CHECK_EVERY = 0 /\ ~running)
               THEN "hash" ELSE "done"]
  /\ UNCHANGED <<main_vars, uncounted, pure_vars, partition_vars, bench_vars, challenge, miner_pubkey, block_number, target, threads, pc, ret,
                 backend_vars, proof_vars, search_vars, batch_start, batches,
                 bnonce, bres, b_after, round_after_stop, gpu_vars>>

\* let hash = Sha256::digest(&message);
\* if is_valid_hash(&hash, target) { return Some((nonce, hash_array)); }
BatchHash(i) ==
  /\ pc = "batch_round" /\ i \in BatchIds /\ bpc[i] = "hash"
  /\ uncounted' = uncounted + 1
  /\ b_after' = HashedAfterStop(i)
  /\ LET hash == Sha256(batch_message(challenge_bytes, block_number, bnonce[i]))
     IN  IF is_valid_hash(hash, target)
         THEN /\ bres' = [bres EXCEPT ![i] = Some(<<bnonce[i], hash>>)]
              /\ bpc' = [bpc EXCEPT ![i] = "done"]
              /\ UNCHANGED bnonce
         ELSE /\ bnonce' = [bnonce EXCEPT ![i] = @ + 1]
              /\ bpc' = [bpc EXCEPT ![i] = "poll"]
              /\ UNCHANGED bres
  /\ UNCHANGED <<main_vars, pure_vars, partition_vars, bench_vars, challenge, miner_pubkey, block_number, target, threads, pc, ret,
                 backend_vars, proof_vars, search_vars, batch_start, batches,
                 round_after_stop, gpu_vars>>

\* the nonce of one batch returned with the digest of another
BatchRoundEnd_MixesResults ==
  /\ pc = "batch_round"
  /\ uncounted' = uncounted - total_batch(threads)
  /\ \A i \in BatchIds : bpc[i] = "done"
  /\ hash_counter' = wrapping_add(hash_counter, total_batch(threads))
  /\ IF BatchFound # {}
     THEN /\ \E i \in BatchFound, j \in BatchFound :
               ret' = Ok(Some(<<bres[i][2][1], bres[j][2][2]>>))
          /\ pc' = "returned"
          /\ UNCHANGED batch_start
     ELSE /\ batch_start' = wrapping_add(batch_start, total_batch(threads))
          /\ pc' = "batch_loop"
          /\ UNCHANGED ret
  /\ UNCHANGED <<main_vars, pure_vars, partition_vars, bench_vars, challenge, miner_pubkey, block_number, target, threads,
                 backend_vars, proof_vars, difficulty, running, batches, bpc,
                 bnonce, bres, b_after, round_after_stop, gpu_vars>>

\* hash_counter.fetch_add(total_batch, Relaxed);
\* if let Some(result) = result { return Ok(Some(result)); }
\* batch_start = batch_start.wrapping_add(total_batch);
BatchRoundEnd ==
  /\ pc = "batch_round"
  /\ uncounted' = uncounted - total_batch(threads)
  /\ \A i \in BatchIds : bpc[i] = "done"
  /\ hash_counter' = wrapping_add(hash_counter, total_batch(threads))
  /\ IF BatchFound # {}
     THEN /\ \E i \in BatchFound : ret' = Ok(bres[i])
          /\ pc' = "returned"
          /\ UNCHANGED batch_start
     ELSE /\ batch_start' = wrapping_add(batch_start, total_batch(threads))
          /\ pc' = "batch_loop"
          /\ UNCHANGED ret
  /\ UNCHANGED <<main_vars, pure_vars, partition_vars, bench_vars, challenge, miner_pubkey, block_number, target, threads,
                 backend_vars, proof_vars, difficulty, running, batches, bpc,
                 bnonce, bres, b_after, round_after_stop, gpu_vars>>

\* the controller clears the flag: running.store(false, SeqCst)
StopRunning ==
  /\ pc # "returned" /\ running
  /\ running' = FALSE
  /\ UNCHANGED <<main_vars, uncounted, pure_vars, partition_vars, bench_vars, challenge, miner_pubkey, block_number, target, threads, pc, ret,
                 backend_vars, proof_vars, difficulty, hash_counter, batch_vars,
                 gpu_vars>>

IdleBackend ==
  /\ backend = "none"
  /\ max_nonce = 0
  /\ threads_per_block = 1
  /\ num_blocks = 1
  /\ found = FALSE
  /\ result = 0
  /\ wpc = <<>>
  /\ wnonce = <<>>
  /\ scanned = <<>>
  /\ after_found = <<>>
  /\ writes = <<>>
  /\ s_nonce = 0
  /\ start_nonce = 0
  /\ d_found = 0
  /\ d_result = 0
  /\ launches = <<>>
  /\ stop_requested = FALSE
  /\ after_stop = 0

InitBatch ==
  /\ challenge \in Challenges
  /\ miner_pubkey = 1
  /\ block_number \in BlockNumbers
  /\ target = U128_ZERO
  /\ threads \in 1..MaxBatchThreads
  /\ difficulty \in Difficulties
  /\ running = TRUE
  /\ hash_counter = 0
  /\ uncounted = 0
  /\ pc = "batch_mine"
  /\ ret = Pending
  /\ IdleBackend /\ IdleProof /\ IdleBatch /\ IdleGpu /\ IdleMain /\ IdlePure
  /\ IdlePartition /\ IdleBench

BatchProgram ==
  \/ BatchMineDivideByZero
  \/ BatchMineSetup
  \/ BatchMineLoop
  \/ \E i \in 1..MaxBatchThreads :
       BatchBegin(i) \/ BatchSkip(i) \/ BatchPoll(i) \/ BatchHash(i)
  \/ BatchRoundEnd

NextBatch == BatchProgram \/ StopRunning

SpecBatch == InitBatch /\ [][NextBatch]_vars

\* every thread of the search keeps running
SpecBatchFair == SpecBatch /\ WF_vars(BatchProgram)

(***************************************************************************)
(* gpu.rs: the OpenCL kernel and its host loop.                            *)
(***************************************************************************)
\* scaled-down work size of a launch (gpu.rs: .dims(1024 * 256))
WORK_SIZE == 2

\* x >> (8 * k)
RECURSIVE shift_right_bytes(_, _)
shift_right_bytes(x, k) ==
  IF k = 0 THEN x ELSE shift_right_bytes(x \div 256, k - 1)

\* message[i] = challenge[i]; message[32 + i] = (nonce >> (i * 8)) & 0xff;
kernel_message(ch, nonce) ==
  ch \o [i \in 1..8 |-> shift_right_bytes(nonce, i - 1) % 256]

\* void sha256_40bytes(const uchar* data, uchar* hash): one SHA-256 block,
\* padding 0x80, length 320 bits
sha256_40bytes(data) == Sha256(data)

\* bool is_valid_hash(const uchar* hash, __constant uchar* target):
\* for (int i = 15; i >= 0; i--) { if (hash[i] < target[i]) return true;
\*                                  if (hash[i] > target[i]) return false; }
\* return false;
RECURSIVE kernel_is_valid_hash_from(_, _, _)
kernel_is_valid_hash_from(hash, target_bytes, i) ==
  IF i < 0 THEN FALSE
  ELSE IF hash[i + 1] < target_bytes[i + 1] THEN TRUE
  ELSE IF hash[i + 1] > target_bytes[i + 1] THEN FALSE
  ELSE kernel_is_valid_hash_from(hash, target_bytes, i - 1)

\* the scan started at byte 0: the bytes compared as a big-endian integer
kernel_is_valid_hash_FromByte0(hash, target_bytes) ==
  \E k \in 1..16 :
    /\ hash[k] < target_bytes[k]
    /\ \A j \in 1..(k - 1) : hash[j] = target_bytes[j]

kernel_is_valid_hash(hash, target_bytes) ==
  kernel_is_valid_hash_from(hash, target_bytes, 15)

\* let target_bytes: [u8; 16] = target.to_le_bytes();
target_bytes == u128_to_le_bytes(target)

Lanes == 1..WORK_SIZE

\* ulong nonce = start_nonce + gid;  lane l has gid = l - 1
lane_nonce(l) == wrapping_add(gpu_start_nonce, l - 1)

lane_hash(l) == sha256_40bytes(kernel_message(challenge_bytes, lane_nonce(l)))

LanesDone == \A l \in DOMAIN lpc : lpc[l] = "done"

\* let target = u128::MAX / difficulty;  with difficulty = 0
GpuMineDivideByZero ==
  /\ pc = "gpu_mine" /\ difficulty = 0
  /\ ret' = Panicked
  /\ pc' = "returned"
  /\ UNCHANGED <<main_vars, uncounted, pure_vars, partition_vars, bench_vars, challenge, miner_pubkey, block_number, target, threads,
                 backend_vars, proof_vars, search_vars, batch_vars, gpu_vars>>

\* target, device, program and buffers; let mut start_nonce: u64 = rand::random();
GpuMineSetup ==
  /\ pc = "gpu_mine" /\ difficulty # 0
  /\ target' = U128Div(U128_MAX, difficulty)
  /\ gpu_start_nonce' \in 0..U64_MAX
  /\ found_buf' = 0
  /\ result_nonce_buf' = 0
  /\ result_hash_buf' = Rep(0, 32)
  /\ pc' = "gpu_loop"
  /\ UNCHANGED <<main_vars, uncounted, pure_vars, partition_vars, bench_vars, challenge, miner_pubkey, block_number, threads, ret,
                 backend_vars, proof_vars, search_vars, batch_vars, lpc,
                 writers, launches_after_stop>>

\* the host loop never looks at the running flag
GpuMineLoop_IgnoresRunning ==
  /\ pc = "gpu_loop"
  /\ pc' = "gpu_launch" /\ UNCHANGED ret
  /\ UNCHANGED <<main_vars, uncounted, pure_vars, partition_vars, bench_vars, challenge, miner_pubkey, block_number, target, threads,
                 backend_vars, proof_vars, search_vars, batch_vars, gpu_vars>>

\* while running.load(Relaxed) { ... } Ok(None)
GpuMineLoop ==
  /\ pc = "gpu_loop"
  /\ IF running
     THEN pc' = "gpu_launch" /\ UNCHANGED ret
     ELSE pc' = "returned" /\ ret' = Ok(None)
  /\ UNCHANGED <<main_vars, uncounted, pure_vars, partition_vars, bench_vars, challenge, miner_pubkey, block_number, target, threads,
                 backend_vars, proof_vars, search_vars, batch_vars, gpu_vars>>

\* found_buf.write(&[0u32]).enq()?; ... unsafe { kernel.enq()?; }
GpuLaunch ==
  /\ pc = "gpu_launch"
  /\ found_buf' = 0
  /\ lpc' = [l \in Lanes |-> "entry"]
  /\ writers' = {}
  /\ launches_after_stop' = IF running THEN launches_after_stop
                                       ELSE launches_after_stop + 1
  /\ pc' = "gpu_wait"
  /\ UNCHANGED <<main_vars, uncounted, pure_vars, partition_vars, bench_vars, challenge, miner_pubkey, block_number, target, threads, ret,
                 backend_vars, proof_vars, search_vars, batch_vars,
                 gpu_start_nonce, result_nonce_buf, result_hash_buf>>

\* if (*found) return;   a plain read, which may miss another lane's write
LaneEntry(l) ==
  /\ pc = "gpu_wait" /\ l \in DOMAIN lpc /\ lpc[l] = "entry"
  /\ \E seen \in {0, found_buf} :
       lpc' = [lpc EXCEPT ![l] = IF seen # 0 THEN "done" ELSE "hash"]
  /\ UNCHANGED <<main_vars, uncounted, pure_vars, partition_vars, bench_vars, challenge, miner_pubkey, block_number, target, threads, pc, ret,
                 backend_vars, proof_vars, search_vars, batch_vars,
                 gpu_start_nonce, found_buf, result_nonce_buf, result_hash_buf,
                 writers, launches_after_stop>>

\* every lane with a valid hash sets found and goes on to write
LaneHash_NoCompareAndSet(l) ==
  /\ pc = "gpu_wait" /\ l \in DOMAIN lpc /\ lpc[l] = "hash"
  /\ uncounted' = uncounted + 1
  /\ IF kernel_is_valid_hash(lane_hash(l), target_bytes)
     THEN /\ found_buf' = 1
          /\ lpc' = [lpc EXCEPT ![l] = "write_nonce"]
     ELSE /\ lpc' = [lpc EXCEPT ![l] = "done"]
          /\ UNCHANGED found_buf
  /\ UNCHANGED <<main_vars, pure_vars, partition_vars, bench_vars, challenge, miner_pubkey, block_number, target, threads, pc, ret,
                 backend_vars, proof_vars, search_vars, batch_vars,
                 gpu_start_nonce, result_nonce_buf, result_hash_buf, writers,
                 launches_after_stop>>

\* if (is_valid_hash(hash, target)) { if (atomic_cmpxchg(found, 0, 1) == 0) {
LaneHash(l) ==
  /\ pc = "gpu_wait" /\ l \in DOMAIN lpc /\ lpc[l] = "hash"
  /\ uncounted' = uncounted + 1
  /\ IF kernel_is_valid_hash(lane_hash(l), target_bytes)
     THEN IF found_buf = 0
          THEN /\ found_buf' = 1
               /\ lpc' = [lpc EXCEPT ![l] = "write_nonce"]
          ELSE /\ lpc' = [lpc EXCEPT ![l] = "done"]
               /\ UNCHANGED found_buf
     ELSE /\ lpc' = [lpc EXCEPT ![l] = "done"]
          /\ UNCHANGED found_buf
  /\ UNCHANGED <<main_vars, pure_vars, partition_vars, bench_vars, challenge, miner_pubkey, block_number, target, threads, pc, ret,
                 backend_vars, proof_vars, search_vars, batch_vars,
                 gpu_start_nonce, result_nonce_buf, result_hash_buf, writers,
                 launches_after_stop>>

\* *result_nonce = nonce;
LaneWriteNonce(l) ==
  /\ pc = "gpu_wait" /\ l \in DOMAIN lpc /\ lpc[l] = "write_nonce"
  /\ result_nonce_buf' = lane_nonce(l)
  /\ writers' = writers \cup {l}
  /\ lpc' = [lpc EXCEPT ![l] = "write_hash"]
  /\ UNCHANGED <<main_vars, uncounted, pure_vars, partition_vars, bench_vars, challenge, miner_pubkey, block_number, target, threads, pc, ret,
                 backend_vars, proof_vars, search_vars, batch_vars,
                 gpu_start_nonce, found_buf, result_hash_buf,
                 launches_after_stop>>

\* for (int i = 0; i < 32; i++) { result_hash[i] = hash[i]; }
LaneWriteHash(l) ==
  /\ pc = "gpu_wait" /\ l \in DOMAIN lpc /\ lpc[l] = "write_hash"
  /\ result_hash_buf' = lane_hash(l)
  /\ writers' = writers \cup {l}
  /\ lpc' = [lpc EXCEPT ![l] = "done"]
  /\ UNCHANGED <<main_vars, uncounted, pure_vars, partition_vars, bench_vars, challenge, miner_pubkey, block_number, target, threads, pc, ret,
                 backend_vars, proof_vars, search_vars, batch_vars,
                 gpu_start_nonce, found_buf, result_nonce_buf,
                 launches_after_stop>>

\* pro_que.queue().finish()?; hash_counter.fetch_add(batch_size as u64, Relaxed);
\* if found[0] == 1 { return Ok(Some((nonce[0], hash))); }
\* start_nonce = start_nonce.wrapping_add(batch_size as u64);
GpuFinish ==
  /\ pc = "gpu_wait" /\ LanesDone
  /\ uncounted' = uncounted - WORK_SIZE
  /\ hash_counter' = wrapping_add(hash_counter, WORK_SIZE)
  /\ IF found_buf = 1
     THEN /\ ret' = Ok(Some(<<result_nonce_buf, result_hash_buf>>))
          /\ pc' = "returned"
          /\ UNCHANGED gpu_start_nonce
     ELSE /\ gpu_start_nonce' = wrapping_add(gpu_start_nonce, WORK_SIZE)
          /\ pc' = "gpu_loop"
          /\ UNCHANGED ret
  /\ UNCHANGED <<main_vars, pure_vars, partition_vars, bench_vars, challenge, miner_pubkey, block_number, target, threads,
                 backend_vars, proof_vars, difficulty, running, batch_vars,
                 found_buf, result_nonce_buf, result_hash_buf, lpc, writers,
                 launches_after_stop>>

\* an OpenCL call fails: `?` returns the error.  After the kernel ran the
\* failing call is queue().finish(), before hash_counter.fetch_add, or one
\* of the reads of found_buf, result_nonce_buf and result_hash_buf, after it
GpuDeviceError ==
  /\ \/ pc = "gpu_mine" /\ difficulty # 0
     \/ pc = "gpu_launch"
     \/ pc = "gpu_wait" /\ LanesDone
  /\ \E counted \in (IF pc = "gpu_wait" THEN BOOLEAN ELSE {FALSE}) :
       IF counted
       THEN /\ uncounted' = uncounted - WORK_SIZE
            /\ hash_counter' = wrapping_add(hash_counter, WORK_SIZE)
       ELSE UNCHANGED <<uncounted, hash_counter>>
  /\ ret' = Err
  /\ pc' = "returned"
  /\ UNCHANGED <<main_vars, pure_vars, partition_vars, bench_vars, challenge, miner_pubkey, block_number, target, threads,
                 backend_vars, proof_vars, difficulty, running, batch_vars, gpu_vars>>

InitGpu ==
  /\ challenge \in Challenges
  /\ miner_pubkey = 1
  /\ block_number \in BlockNumbers
  /\ target = U128_ZERO
  /\ threads = 1
  /\ difficulty \in Difficulties
  /\ running = TRUE
  /\ hash_counter = 0
  /\ uncounted = 0
  /\ pc = "gpu_mine"
  /\ ret = Pending
  /\ IdleBackend /\ IdleProof /\ IdleBatch /\ IdleGpu /\ IdleMain /\ IdlePure
  /\ IdlePartition /\ IdleBench

GpuProgram ==
  \/ GpuMineDivideByZero
  \/ GpuMineSetup
  \/ GpuMineLoop
  \/ GpuLaunch
  \/ \E l \in Lanes :
       LaneEntry(l) \/ LaneHash(l) \/ LaneWriteNonce(l) \/ LaneWriteHash(l)
  \/ GpuFinish

NextGpu == GpuProgram \/ GpuDeviceError \/ StopRunning

SpecGpu == InitGpu /\ [][NextGpu]_vars

\* the host thread and the device keep running
SpecGpuFair == SpecGpu /\ WF_vars(GpuProgram)

(***************************************************************************)
(* The two cancellable searches, cpu::mine and gpu::mine, side by side.    *)
(***************************************************************************)
InitSearch == InitBatch \/ InitGpu

NextSearch == BatchProgram \/ GpuProgram \/ GpuDeviceError \/ StopRunning

SpecSearch == InitSearch /\ [][NextSearch]_vars

(***************************************************************************)
(* The Proof Function and its two re-implementations, on the same inputs.  *)
(***************************************************************************)
\* largest nonce handed to the three implementations
MaxProofNonce == 7

ProofPow ==
  /\ pc = "proof" /\ pow_out = NotComputed
  /\ pow_out' =
       [message |-> pow_message(challenge_bytes, miner_pubkey_bytes, nonce_in,
                                block_number),
        hash |-> compute_hash(challenge_bytes, miner_pubkey_bytes, nonce_in,
                              block_number),
        valid |-> verify_nonce(challenge_bytes, miner_pubkey_bytes, nonce_in,
                               block_number, target)]
  /\ UNCHANGED <<main_vars, uncounted, pure_vars, partition_vars, bench_vars, challenge, miner_pubkey, block_number, target, threads, pc, ret,
                 backend_vars, nonce_in, batch_out, kernel_out, search_vars,
                 batch_vars, gpu_vars>>

\* one iteration of the loop of cpu::mine_batch
ProofBatch ==
  /\ pc = "proof" /\ batch_out = NotComputed
  /\ LET message == batch_message(challenge_bytes, block_number, nonce_in)
         hash == Sha256(message)
     IN  batch_out' = [message |-> message, hash |-> hash,
                       valid |-> is_valid_hash(hash, target)]
  /\ UNCHANGED <<main_vars, uncounted, pure_vars, partition_vars, bench_vars, challenge, miner_pubkey, block_number, target, threads, pc, ret,
                 backend_vars, nonce_in, pow_out, kernel_out, search_vars,
                 batch_vars, gpu_vars>>

\* one lane of the OpenCL kernel
ProofKernel ==
  /\ pc = "proof" /\ kernel_out = NotComputed
  /\ LET message == kernel_message(challenge_bytes, nonce_in)
         hash == sha256_40bytes(message)
     IN  kernel_out' = [message |-> message, hash |-> hash,
                        valid |-> kernel_is_valid_hash(hash, target_bytes)]
  /\ UNCHANGED <<main_vars, uncounted, pure_vars, partition_vars, bench_vars, challenge, miner_pubkey, block_number, target, threads, pc, ret,
                 backend_vars, nonce_in, pow_out, batch_out, search_vars,
                 batch_vars, gpu_vars>>

InitProof ==
  /\ challenge \in Challenges
  /\ miner_pubkey \in MinerPubkeys
  /\ block_number \in BlockNumbers
  /\ target \in Targets
  /\ threads = 1
  /\ nonce_in \in 0..MaxProofNonce
  /\ pow_out = NotComputed
  /\ batch_out = NotComputed
  /\ kernel_out = NotComputed
  /\ pc = "proof"
  /\ ret = Pending
  /\ IdleBackend /\ IdleSearch /\ IdleBatch /\ IdleGpu /\ IdleMain /\ IdlePure
  /\ IdlePartition /\ IdleBench

NextProof == ProofPow \/ ProofBatch \/ ProofKernel

SpecProof == InitProof /\ [][NextProof]_vars

(***************************************************************************)
(* main.rs: backend selection in main, and run_benchmark up to its call of *)
(* miner.mine.  Command-line strings are sequences of one-character        *)
(* strings.                                                                *)
(***************************************************************************)
\* largest --threads value of the command line
MaxCliThreads == 2

\* largest value of num_cpus::get
MaxCpus == 2

\* anyhow::Error with its message
Error(msg) == <<"Err", msg>>

HexLower == <<"0", "1", "2", "3", "4", "5", "6", "7", "8", "9",
              "a", "b", "c", "d", "e", "f">>

HexUpper == <<"0", "1", "2", "3", "4", "5", "6", "7", "8", "9",
              "A", "B", "C", "D", "E", "F">>

IsHexDigit(c) == \E i \in 1..16 : HexLower[i] = c \/ HexUpper[i] = c

HexValue(c) == (CHOOSE i \in 1..16 : HexLower[i] = c \/ HexUpper[i] = c) - 1

\* str::trim_start_matches("0x"): removes every leading repetition of "0x"
RECURSIVE trim_start_matches_0x(_)
trim_start_matches_0x(s) ==
  IF Len(s) >= 2 /\ s[1] = "0" /\ s[2] = "x"
  THEN trim_start_matches_0x(SubSeq(s, 3, Len(s)))
  ELSE s

\* hex::decode: odd length and non-hexadecimal characters are errors, else
\* one byte per pair of characters, high digit first
hex_decode(s) ==
  IF Len(s) % 2 = 1 THEN Error("OddLength")
  ELSE IF \E i \in 1..Len(s) : ~IsHexDigit(s[i]) THEN Error("InvalidHexCharacter")
  ELSE Ok([i \in 1..(Len(s) \div 2) |->
             16 * HexValue(s[2 * i - 1]) + HexValue(s[2 * i])])

\* a 32-byte array filled from the decoded bytes only when there are 32
parse_32_Truncating(hex_opt) ==
  IF hex_opt = None THEN Ok(Rep(0, 32))
  ELSE LET bytes == hex_decode(trim_start_matches_0x(hex_opt[2]))
       IN  IF bytes[1] = "Err" THEN Ok(Rep(0, 32))
           ELSE Ok([i \in 1..32 |-> IF i <= Len(bytes[2]) THEN bytes[2][i] ELSE 0])

\* run_benchmark: Option<String> to [u8; 32], or the error returned by `?`
\* and bail!
parse_32(hex_opt) ==
  IF hex_opt = None THEN Ok(Rep(0, 32))
  ELSE LET bytes == hex_decode(trim_start_matches_0x(hex_opt[2]))
       IN  IF bytes[1] = "Err" THEN Error("Invalid hex")
           ELSE IF Len(bytes[2]) # 32 THEN Error("must be 32 bytes")
           ELSE Ok(bytes[2])

\* n repetitions of a text
RECURSIVE RepeatText(_, _)
RepeatText(t, n) == IF n = 0 THEN <<>> ELSE t \o RepeatText(t, n - 1)

\* values of --challenge
ChallengeHexInputs ==
  { None,
    Some(RepeatText(<<"0", "0">>, 32)),
    Some(<<"0", "x">> \o RepeatText(<<"0", "1">>, 32)),
    Some(<<"0", "x", "0", "x">> \o RepeatText(<<"A", "b">>, 32)),
    Some(RepeatText(<<"0", "1">>, 31)),
    Some(<<"0", "x">> \o RepeatText(<<"0", "1">>, 33)),
    Some(RepeatText(<<"0", "1">>, 31) \o <<"0">>),
    Some(RepeatText(<<"0", "1">>, 31) \o <<"0", "g">>),
    Some(<<>>) }

\* values of --miner-pubkey
MinerPubkeyHexInputs ==
  { None,
    Some(RepeatText(<<"0", "2">>, 32)),
    Some(RepeatText(<<"0", "2">>, 16)),
    Some(RepeatText(<<"0", "2">>, 32) \o <<"f">>),
    Some(<<"0", "x">> \o RepeatText(<<"z", "z">>, 32)) }

\* values of --backend
CliBackends == {"auto", "cpu", "cuda", "opencl", "gpu"}

\* CudaMiner::new: Ok, or the error of CudaDevice::new or load_ptx
CudaMinerNew == {"Ok", "Err"}

\* an OpenClMiner::new that can succeed
OpenClMinerNew_Implemented == {"Ok", "Err"}

\* OpenClMiner::new: Err(anyhow!("OpenCL support not yet implemented"))
OpenClMinerNew == {"Err"}

\* Box::new(miner::CpuMiner::new(threads))
CpuMinerBox(th) == <<"CpuMiner", th>>

\* "cpu" => CpuMiner::new(cli.threads.unwrap_or_else(num_cpus::get))
SelectCpu ==
  /\ pc = "main" /\ cli_backend = "cpu"
  /\ miner' = CpuMinerBox(IF cli_threads = None THEN num_cpus ELSE cli_threads[2])
  /\ attempts' = <<<<"CpuMiner", "Ok">>>>
  /\ pc' = "selected"
  /\ UNCHANGED <<cli_backend, cli_threads, cli_benchmark, challenge_hex,
                 miner_pubkey_hex, feature_cuda, feature_opencl, num_cpus,
                 bench_challenge, bench_miner_pubkey, mine_calls>>
  /\ UNCHANGED <<uncounted, pure_vars, partition_vars, bench_vars, challenge, miner_pubkey, block_number, target, threads, ret,
                 backend_vars, proof_vars, search_vars, batch_vars, gpu_vars>>

\* the error of CudaMiner::new returned from main instead of the fallback
SelectCuda_PropagatesError ==
  /\ pc = "main" /\ cli_backend = "cuda" /\ feature_cuda
  /\ \E made \in CudaMinerNew :
       IF made = "Ok"
       THEN /\ miner' = <<"CudaMiner">>
            /\ attempts' = <<<<"CudaMiner", "Ok">>>>
            /\ pc' = "selected" /\ UNCHANGED ret
       ELSE /\ UNCHANGED miner
            /\ attempts' = <<<<"CudaMiner", "Err">>>>
            /\ pc' = "returned" /\ ret' = Error("CUDA init failed")
  /\ UNCHANGED <<cli_backend, cli_threads, cli_benchmark, challenge_hex,
                 miner_pubkey_hex, feature_cuda, feature_opencl, num_cpus,
                 bench_challenge, bench_miner_pubkey, mine_calls>>
  /\ UNCHANGED <<uncounted, pure_vars, partition_vars, bench_vars, challenge, miner_pubkey, block_number, target, threads,
                 backend_vars, proof_vars, search_vars, batch_vars, gpu_vars>>

\* #[cfg(feature = "cuda")] "cuda" => CudaMiner::new, or CpuMiner on Err
SelectCuda ==
  /\ pc = "main" /\ cli_backend = "cuda" /\ feature_cuda
  /\ \E made \in CudaMinerNew :
       IF made = "Ok"
       THEN /\ miner' = <<"CudaMiner">>
            /\ attempts' = <<<<"CudaMiner", "Ok">>>>
       ELSE /\ miner' = CpuMinerBox(num_cpus)
            /\ attempts' = <<<<"CudaMiner", "Err">>, <<"CpuMiner", "Ok">>>>
  /\ pc' = "selected"
  /\ UNCHANGED <<cli_backend, cli_threads, cli_benchmark, challenge_hex,
                 miner_pubkey_hex, feature_cuda, feature_opencl, num_cpus,
                 bench_challenge, bench_miner_pubkey, mine_calls>>
  /\ UNCHANGED <<uncounted, pure_vars, partition_vars, bench_vars, challenge, miner_pubkey, block_number, target, threads, ret,
                 backend_vars, proof_vars, search_vars, batch_vars, gpu_vars>>

\* #[cfg(feature = "opencl")] "opencl" => OpenClMiner::new, or CpuMiner on Err
SelectOpenCl ==
  /\ pc = "main" /\ cli_backend = "opencl" /\ feature_opencl
  /\ \E made \in OpenClMinerNew :
       IF made = "Ok"
       THEN /\ miner' = <<"OpenClMiner">>
            /\ attempts' = <<<<"OpenClMiner", "Ok">>>>
       ELSE /\ miner' = CpuMinerBox(num_cpus)
            /\ attempts' = <<<<"OpenClMiner", "Err">>, <<"CpuMiner", "Ok">>>>
  /\ pc' = "selected"
  /\ UNCHANGED <<cli_backend, cli_threads, cli_benchmark, challenge_hex,
                 miner_pubkey_hex, feature_cuda, feature_opencl, num_cpus,
                 bench_challenge, bench_miner_pubkey, mine_calls>>
  /\ UNCHANGED <<uncounted, pure_vars, partition_vars, bench_vars, challenge, miner_pubkey, block_number, target, threads, ret,
                 backend_vars, proof_vars, search_vars, batch_vars, gpu_vars>>

\* the arm "auto" | _ for the constructor outcomes cuda and opencl: the
\* constructors called with their outcomes, and the selected backend
AutoDetect(cuda, opencl) ==
  LET cpu == <<<<<<"CpuMiner", "Ok">>>>, CpuMinerBox(num_cpus)>>
      try_opencl ==
        IF feature_opencl
        THEN IF opencl = "Ok"
             THEN <<<<<<"OpenClMiner", "Ok">>>>, <<"OpenClMiner">>>>
             ELSE <<<<<<"OpenClMiner", "Err">>>> \o cpu[1], cpu[2]>>
        ELSE cpu
  IN  IF feature_cuda
      THEN IF cuda = "Ok"
           THEN <<<<<<"CudaMiner", "Ok">>>>, <<"CudaMiner">>>>
           ELSE <<<<<<"CudaMiner", "Err">>>> \o try_opencl[1], try_opencl[2]>>
      ELSE try_opencl

\* the strings the arms "cuda" and "opencl" take in this build
ExplicitArm ==
  \/ cli_backend = "cpu"
  \/ cli_backend = "cuda" /\ feature_cuda
  \/ cli_backend = "opencl" /\ feature_opencl

\* a last arm that takes "auto" only and rejects every other string
SelectAuto_RejectsUnknown ==
  /\ pc = "main" /\ ~ExplicitArm
  /\ IF cli_backend = "auto"
     THEN /\ \E cuda \in CudaMinerNew, opencl \in OpenClMinerNew :
               /\ attempts' = AutoDetect(cuda, opencl)[1]
               /\ miner' = AutoDetect(cuda, opencl)[2]
          /\ pc' = "selected" /\ UNCHANGED ret
     ELSE /\ pc' = "returned" /\ ret' = Error("unknown backend")
          /\ UNCHANGED <<attempts, miner>>
  /\ UNCHANGED <<cli_backend, cli_threads, cli_benchmark, challenge_hex,
                 miner_pubkey_hex, feature_cuda, feature_opencl, num_cpus,
                 bench_challenge, bench_miner_pubkey, mine_calls>>
  /\ UNCHANGED <<uncounted, pure_vars, partition_vars, bench_vars, challenge, miner_pubkey, block_number, target, threads,
                 backend_vars, proof_vars, search_vars, batch_vars, gpu_vars>>

\* "auto" | _ => CUDA, then OpenCL, then CPU
SelectAuto ==
  /\ pc = "main" /\ ~ExplicitArm
  /\ \E cuda \in CudaMinerNew, opencl \in OpenClMinerNew :
       /\ attempts' = AutoDetect(cuda, opencl)[1]
       /\ miner' = AutoDetect(cuda, opencl)[2]
  /\ pc' = "selected"
  /\ UNCHANGED <<cli_backend, cli_threads, cli_benchmark, challenge_hex,
                 miner_pubkey_hex, feature_cuda, feature_opencl, num_cpus,
                 bench_challenge, bench_miner_pubkey, mine_calls>>
  /\ UNCHANGED <<uncounted, pure_vars, partition_vars, bench_vars, challenge, miner_pubkey, block_number, target, threads, ret,
                 backend_vars, proof_vars, search_vars, batch_vars, gpu_vars>>

\* run_miner: anyhow::bail!("Mining mode is not yet implemented...")
RunMiner ==
  /\ pc = "selected" /\ ~cli_benchmark
  /\ pc' = "returned"
  /\ ret' = Error("Mining mode is not yet implemented")
  /\ UNCHANGED <<main_vars, uncounted, pure_vars, partition_vars, bench_vars, challenge, miner_pubkey, block_number, target, threads,
                 backend_vars, proof_vars, search_vars, batch_vars, gpu_vars>>

\* run_benchmark: let challenge = if let Some(hex) = challenge_hex { ... }
ParseChallenge ==
  /\ pc = "selected" /\ cli_benchmark
  /\ LET parsed == parse_32(challenge_hex)
     IN  IF parsed[1] = "Err"
         THEN /\ pc' = "returned" /\ ret' = parsed
              /\ UNCHANGED bench_challenge
         ELSE /\ pc' = "parse_miner_pubkey" /\ UNCHANGED ret
              /\ bench_challenge' = parsed[2]
  /\ UNCHANGED <<cli_backend, cli_threads, cli_benchmark, challenge_hex,
                 miner_pubkey_hex, feature_cuda, feature_opencl, num_cpus,
                 attempts, miner, bench_miner_pubkey, mine_calls>>
  /\ UNCHANGED <<uncounted, pure_vars, partition_vars, bench_vars, challenge, miner_pubkey, block_number, target, threads,
                 backend_vars, proof_vars, search_vars, batch_vars, gpu_vars>>

\* run_benchmark: let miner_pubkey = if let Some(hex) = miner_pubkey_hex { ... }
ParseMinerPubkey ==
  /\ pc = "parse_miner_pubkey"
  /\ LET parsed == parse_32(miner_pubkey_hex)
     IN  IF parsed[1] = "Err"
         THEN /\ pc' = "returned" /\ ret' = parsed
              /\ UNCHANGED bench_miner_pubkey
         ELSE /\ pc' = "target" /\ UNCHANGED ret
              /\ bench_miner_pubkey' = parsed[2]
  /\ UNCHANGED <<cli_backend, cli_threads, cli_benchmark, challenge_hex,
                 miner_pubkey_hex, feature_cuda, feature_opencl, num_cpus,
                 attempts, miner, bench_challenge, mine_calls>>
  /\ UNCHANGED <<uncounted, pure_vars, partition_vars, bench_vars, challenge, miner_pubkey, block_number, target, threads,
                 backend_vars, proof_vars, search_vars, batch_vars, gpu_vars>>

\* run_benchmark: let target = u128::MAX / difficulty; (panics for 0)
BenchmarkTarget ==
  /\ pc = "target"
  /\ IF difficulty = 0
     THEN pc' = "returned" /\ ret' = Panicked /\ UNCHANGED target
     ELSE pc' = "mine" /\ target' = U128Div(U128_MAX, difficulty) /\ UNCHANGED ret
  /\ UNCHANGED <<main_vars, uncounted, pure_vars, partition_vars, bench_vars, challenge, miner_pubkey, block_number, threads,
                 backend_vars, proof_vars, search_vars, batch_vars, gpu_vars>>

\* run_benchmark: miner.mine(&challenge, &miner_pubkey, block_number, target, u128::MAX)
BenchmarkMine ==
  /\ pc = "mine"
  /\ mine_calls' = Append(mine_calls,
                          [challenge |-> bench_challenge,
                           miner_pubkey |-> bench_miner_pubkey,
                           block_number |-> block_number,
                           target |-> target,
                           max_nonce |-> U128_MAX])
  /\ pc' = "mine_called"
  /\ UNCHANGED <<cli_backend, cli_threads, cli_benchmark, challenge_hex,
                 miner_pubkey_hex, feature_cuda, feature_opencl, num_cpus,
                 attempts, miner, bench_challenge, bench_miner_pubkey>>
  /\ UNCHANGED <<uncounted, pure_vars, partition_vars, bench_vars, challenge, miner_pubkey, block_number, target, threads, ret,
                 backend_vars, proof_vars, search_vars, batch_vars, gpu_vars>>

InitMain ==
  /\ cli_backend \in CliBackends
  /\ cli_threads \in {None} \cup {Some(n) : n \in 0..MaxCliThreads}
  /\ cli_benchmark \in BOOLEAN
  /\ challenge_hex \in ChallengeHexInputs
  /\ miner_pubkey_hex \in MinerPubkeyHexInputs
  /\ feature_cuda \in BOOLEAN
  /\ feature_opencl \in BOOLEAN
  /\ num_cpus \in 1..MaxCpus
  /\ attempts = <<>>
  /\ miner = None
  /\ bench_challenge = None
  /\ bench_miner_pubkey = None
  /\ mine_calls = <<>>
  /\ challenge = 0
  /\ miner_pubkey = 0
  /\ block_number \in BlockNumbers
  /\ target = U128_ZERO
  /\ threads = 1
  /\ difficulty \in {0, 2}
  /\ running = TRUE
  /\ hash_counter = 0
  /\ uncounted = 0
  /\ pc = "main"
  /\ ret = Pending
  /\ IdleBackend /\ IdleProof /\ IdleBatch /\ IdleGpu /\ IdlePure
  /\ IdlePartition /\ IdleBench

NextMain ==
  \/ SelectCpu \/ SelectCuda \/ SelectOpenCl \/ SelectAuto
  \/ RunMiner \/ ParseChallenge \/ ParseMinerPubkey \/ BenchmarkTarget
  \/ BenchmarkMine

SpecMain == InitMain /\ [][NextMain]_vars

(***************************************************************************)
(* pow.rs and cpu.rs: the validity predicate as a function of its          *)
(* arguments.  Two calls of verify_nonce on the same challenge, miner      *)
(* identity, nonce and block number with targets of their own, and one     *)
(* call of cpu::is_valid_hash.                                             *)
(***************************************************************************)
\* largest nonce handed to verify_nonce
MaxValidityNonce == 2

\* everything but the variables of the Proof Function calls
not_pure == <<challenge, miner_pubkey, block_number, target, threads, pc, ret,
              backend_vars, proof_vars, search_vars, batch_vars, gpu_vars,
              main_vars, uncounted, partition_vars, bench_vars>>

\* u128::from_le_bytes(hash[..16]) of the digest of a nonce
HashValueOf(pk, bn, n) ==
  from_le_bytes(SubSeq(compute_hash(Rep(0, 32), Rep(pk, 32), n, bn), 1, 16))

\* the targets of a search, and targets equal to the hash value of a nonce
ValidityTargets ==
  Targets \cup {HashValueOf(1, 100, n) : n \in 0..MaxValidityNonce}

\* the arguments of one call of the Proof Function
CallArgs(ch, pk, n, bn, tg) ==
  [challenge |-> ch, miner_pubkey |-> pk, nonce |-> n, block_number |-> bn,
   target |-> tg]

\* pow::verify_nonce(challenge, miner_pubkey, nonce, block_number, target)
VerifyNonceCall(i) ==
  /\ pc = "calls" /\ i \in DOMAIN call_pc /\ call_pc[i] = "new"
  /\ LET a == call_in[i]
         ch == Rep(a.challenge, 32)
         pk == Rep(a.miner_pubkey, 32)
     IN  call_out' = [call_out EXCEPT ![i] =
           [message |-> pow_message(ch, pk, a.nonce, a.block_number),
            hash |-> compute_hash(ch, pk, a.nonce, a.block_number),
            valid |-> verify_nonce(ch, pk, a.nonce, a.block_number, a.target)]]
  /\ call_pc' = [call_pc EXCEPT ![i] = "done"]
  /\ UNCHANGED <<not_pure, call_in, hasher, prev_out, hash_in, is_valid_out,
                 kernel_valid_out>>

\* cpu::is_valid_hash(&hash, target)
IsValidHashCall ==
  /\ pc = "calls" /\ hash_in # <<>> /\ is_valid_out = <<>>
  /\ is_valid_out' = <<is_valid_hash(hash_in, call_in[1].target)>>
  /\ UNCHANGED <<not_pure, call_in, call_pc, hasher, call_out, prev_out, hash_in,
                 kernel_valid_out>>

\* OpenCL kernel: is_valid_hash(hash, target) on the bytes of the target
KernelIsValidHashCall ==
  /\ pc = "calls" /\ hash_in # <<>> /\ kernel_valid_out = <<>>
  /\ kernel_valid_out' =
       <<kernel_is_valid_hash(hash_in, u128_to_le_bytes(call_in[1].target))>>
  /\ UNCHANGED <<not_pure, call_in, call_pc, hasher, call_out, prev_out, hash_in,
                 is_valid_out>>

\* the 16 bytes of a u128 with d added to byte k (from 1, least significant
\* first)
bytes_with(v, k, d) == [u128_to_le_bytes(v) EXCEPT ![k] = (@ + d) % 256]

\* hashes for the validity predicates: the bytes of a target, or those bytes
\* but for one byte that is one more or one less, then 16 more bytes
ValidityHashes(tg) ==
  {bytes_with(tg, k, d) \o Rep(b, 16) :
     k \in {1, 8, 16}, d \in {0, 1, 255}, b \in {0, 255}}

InitValidity ==
  /\ \E pk \in MinerPubkeys, n \in 0..MaxValidityNonce, bn \in BlockNumbers :
       \E t1 \in ValidityTargets, t2 \in ValidityTargets :
         call_in = <<CallArgs(0, pk, n, bn, t1), CallArgs(0, pk, n, bn, t2)>>
  /\ hash_in \in ValidityHashes(call_in[2].target)
  /\ call_pc = <<"new", "new">>
  /\ hasher = <<>>
  /\ call_out = <<NotComputed, NotComputed>>
  /\ prev_out = <<>>
  /\ is_valid_out = <<>>
  /\ kernel_valid_out = <<>>
  /\ challenge = 0
  /\ miner_pubkey = 1
  /\ block_number \in BlockNumbers
  /\ target = U128_ZERO
  /\ threads = 1
  /\ pc = "calls"
  /\ ret = Pending
  /\ IdleBackend /\ IdleProof /\ IdleSearch /\ IdleBatch /\ IdleGpu /\ IdleMain
  /\ IdlePartition /\ IdleBench

NextValidity ==
  \/ \E i \in 1..2 : VerifyNonceCall(i)
  \/ IsValidHashCall
  \/ KernelIsValidHashCall

SpecValidity == InitValidity /\ [][NextValidity]_vars

(***************************************************************************)
(* pow.rs: compute_hash and verify_nonce statement by statement, two       *)
(* callers at a time; a caller may make the same call a second time.       *)
(***************************************************************************)
CallChallenges == {0, 1}

CallNonces == {1, 256}

CallBlockNumbers == {100, 101}

\* the hasher of the caller's previous call used again
HasherNew_KeepsState(i) ==
  /\ pc = "hashing" /\ i \in DOMAIN call_pc /\ call_pc[i] = "new"
  /\ call_pc' = [call_pc EXCEPT ![i] = "challenge"]
  /\ UNCHANGED <<not_pure, call_in, hasher, call_out, prev_out, hash_in, is_valid_out,
                 kernel_valid_out>>

\* let mut hasher = Sha256::new();
HasherNew(i) ==
  /\ pc = "hashing" /\ i \in DOMAIN call_pc /\ call_pc[i] = "new"
  /\ hasher' = [hasher EXCEPT ![i] = <<>>]
  /\ call_pc' = [call_pc EXCEPT ![i] = "challenge"]
  /\ UNCHANGED <<not_pure, call_in, call_out, prev_out, hash_in, is_valid_out,
                 kernel_valid_out>>

\* hasher.update(challenge);
UpdateChallenge(i) ==
  /\ pc = "hashing" /\ i \in DOMAIN call_pc /\ call_pc[i] = "challenge"
  /\ hasher' = [hasher EXCEPT ![i] = @ \o Rep(call_in[i].challenge, 32)]
  /\ call_pc' = [call_pc EXCEPT ![i] = "miner_pubkey"]
  /\ UNCHANGED <<not_pure, call_in, call_out, prev_out, hash_in, is_valid_out,
                 kernel_valid_out>>

\* the miner identity left out of the message
UpdateMinerPubkey_Skipped(i) ==
  /\ pc = "hashing" /\ i \in DOMAIN call_pc /\ call_pc[i] = "miner_pubkey"
  /\ hasher' = hasher
  /\ call_pc' = [call_pc EXCEPT ![i] = "nonce"]
  /\ UNCHANGED <<not_pure, call_in, call_out, prev_out, hash_in, is_valid_out,
                 kernel_valid_out>>

\* hasher.update(miner_pubkey);
UpdateMinerPubkey(i) ==
  /\ pc = "hashing" /\ i \in DOMAIN call_pc /\ call_pc[i] = "miner_pubkey"
  /\ hasher' = [hasher EXCEPT ![i] = @ \o Rep(call_in[i].miner_pubkey, 32)]
  /\ call_pc' = [call_pc EXCEPT ![i] = "nonce"]
  /\ UNCHANGED <<not_pure, call_in, call_out, prev_out, hash_in, is_valid_out,
                 kernel_valid_out>>

\* the nonce as the 8 bytes of a u64
UpdateNonce_AsU64(i) ==
  /\ pc = "hashing" /\ i \in DOMAIN call_pc /\ call_pc[i] = "nonce"
  /\ hasher' = [hasher EXCEPT ![i] = @ \o to_le_bytes(call_in[i].nonce, 8)]
  /\ call_pc' = [call_pc EXCEPT ![i] = "block_number"]
  /\ UNCHANGED <<not_pure, call_in, call_out, prev_out, hash_in, is_valid_out,
                 kernel_valid_out>>

\* hasher.update(&nonce.to_le_bytes());
UpdateNonce(i) ==
  /\ pc = "hashing" /\ i \in DOMAIN call_pc /\ call_pc[i] = "nonce"
  /\ hasher' = [hasher EXCEPT ![i] = @ \o to_le_bytes(call_in[i].nonce, 16)]
  /\ call_pc' = [call_pc EXCEPT ![i] = "block_number"]
  /\ UNCHANGED <<not_pure, call_in, call_out, prev_out, hash_in, is_valid_out,
                 kernel_valid_out>>

\* the block number left out of the message
UpdateBlockNumber_Skipped(i) ==
  /\ pc = "hashing" /\ i \in DOMAIN call_pc /\ call_pc[i] = "block_number"
  /\ hasher' = hasher
  /\ call_pc' = [call_pc EXCEPT ![i] = "finalize"]
  /\ UNCHANGED <<not_pure, call_in, call_out, prev_out, hash_in, is_valid_out,
                 kernel_valid_out>>

\* hasher.update(&block_number.to_le_bytes());
UpdateBlockNumber(i) ==
  /\ pc = "hashing" /\ i \in DOMAIN call_pc /\ call_pc[i] = "block_number"
  /\ hasher' = [hasher EXCEPT ![i] = @ \o to_le_bytes(call_in[i].block_number, 8)]
  /\ call_pc' = [call_pc EXCEPT ![i] = "finalize"]
  /\ UNCHANGED <<not_pure, call_in, call_out, prev_out, hash_in, is_valid_out,
                 kernel_valid_out>>

\* hasher.finalize().into(), and in verify_nonce
\* u128::from_le_bytes(hash[..16]) < target
HasherFinalize(i) ==
  /\ pc = "hashing" /\ i \in DOMAIN call_pc /\ call_pc[i] = "finalize"
  /\ LET hash == Sha256(hasher[i])
     IN  call_out' = [call_out EXCEPT ![i] =
           [message |-> hasher[i],
            hash |-> hash,
            valid |-> U128Less(from_le_bytes(SubSeq(hash, 1, 16)),
                               call_in[i].target)]]
  /\ call_pc' = [call_pc EXCEPT ![i] = "done"]
  /\ UNCHANGED <<not_pure, call_in, hasher, prev_out, hash_in, is_valid_out,
                 kernel_valid_out>>

\* the caller makes the same call again (test_compute_hash: hash, hash2)
CallAgain(i) ==
  /\ pc = "hashing" /\ i \in DOMAIN call_pc /\ call_pc[i] = "done"
  /\ prev_out[i] = NotComputed
  /\ prev_out' = [prev_out EXCEPT ![i] = call_out[i]]
  /\ call_pc' = [call_pc EXCEPT ![i] = "new"]
  /\ UNCHANGED <<not_pure, call_in, hasher, call_out, hash_in, is_valid_out,
                 kernel_valid_out>>

InitCalls ==
  /\ call_in \in
       [1..2 -> {CallArgs(ch, pk, n, bn, U128Div(U128_MAX, 2)) :
                   ch \in CallChallenges, pk \in MinerPubkeys,
                   n \in CallNonces, bn \in CallBlockNumbers}]
  /\ call_pc = [i \in 1..2 |-> "new"]
  /\ hasher = [i \in 1..2 |-> <<>>]
  /\ call_out = [i \in 1..2 |-> NotComputed]
  /\ prev_out = [i \in 1..2 |-> NotComputed]
  /\ hash_in = <<>>
  /\ is_valid_out = <<>>
  /\ kernel_valid_out = <<>>
  /\ challenge = 0
  /\ miner_pubkey = 1
  /\ block_number \in BlockNumbers
  /\ target = U128_ZERO
  /\ threads = 1
  /\ pc = "hashing"
  /\ ret = Pending
  /\ IdleBackend /\ IdleProof /\ IdleSearch /\ IdleBatch /\ IdleGpu /\ IdleMain
  /\ IdlePartition /\ IdleBench

NextCalls ==
  \E i \in 1..2 :
    \/ HasherNew(i) \/ UpdateChallenge(i) \/ UpdateMinerPubkey(i)
    \/ UpdateNonce(i) \/ UpdateBlockNumber(i) \/ HasherFinalize(i)
    \/ CallAgain(i)

SpecCalls == InitCalls /\ [][NextCalls]_vars

(***************************************************************************)
(* miner.rs: the partition arithmetic of CpuMiner::mine on u128 values of  *)
(* full width, statement by statement, for one worker.  An operation that  *)
(* leaves the range of u128 panics in a debug build and wraps in a release *)
(* build; the model keeps the wrapped value and records the overflow.      *)
(***************************************************************************)
\* a small number as a u128
U128From(n) == [i \in 1..8 |-> IF i = 8 THEN n ELSE 0]

\* the carry out of limb i of v * k
RECURSIVE MulCarry(_, _, _)
MulCarry(v, k, i) ==
  IF i > 8 THEN 0 ELSE (v[i] * k + MulCarry(v, k, i + 1)) \div 65536

\* v * k on u128, wrapped, for a small k
U128Mul(v, k) == [i \in 1..8 |-> (v[i] * k + MulCarry(v, k, i + 1)) % 65536]

MulOverflows(v, k) == MulCarry(v, k, 1) > 0

\* the carry out of limb i of v + k
RECURSIVE AddCarry(_, _, _)
AddCarry(v, k, i) ==
  IF i > 8 THEN k ELSE (v[i] + AddCarry(v, k, i + 1)) \div 65536

\* v + k on u128, wrapped, for a small k
U128Add(v, k) == [i \in 1..8 |-> (v[i] + AddCarry(v, k, i + 1)) % 65536]

AddOverflows(v, k) == AddCarry(v, k, 1) > 0

\* the borrow out of limb i of v - 1
RECURSIVE Borrow(_, _)
Borrow(v, i) ==
  IF i > 8 THEN 1 ELSE IF v[i] - Borrow(v, i + 1) < 0 THEN 1 ELSE 0

\* v - 1 on u128 (v > 0)
U128Dec(v) == [i \in 1..8 |-> (v[i] - Borrow(v, i + 1) + 65536) % 65536]

U128LessEq(a, b) == a = b \/ U128Less(a, b)

\* max_nonce as the callers pass it (u128::MAX) and as they might
PartitionMaxNonces ==
  {U128_MAX, U128Dec(U128_MAX), U128Dec(U128Dec(U128_MAX)),
   U128Div(U128_MAX, 2), [i \in 1..8 |-> IF i = 4 THEN 1 ELSE 0],
   U128From(5), U128From(1), U128From(0)}

\* the loop runs once more, with nonce = end
loop_nonces_Inclusive(start, end) ==
  {n \in {start, end} : U128LessEq(start, n) /\ U128LessEq(n, end)}

\* while nonce < end { ... nonce += 1; }: the first and the last value of
\* nonce with which the loop body runs
loop_nonces(start, end) ==
  {n \in {start, IF end = U128_ZERO THEN end ELSE U128Dec(end)} :
     U128LessEq(start, n) /\ U128Less(n, end)}

\* let chunk_size = max_nonce / (self.threads as u128);
PartitionChunkSize ==
  /\ pc = "chunk_size"
  /\ part_out' = [part_out EXCEPT
       !.chunk_size = U128Div(part_in.max_nonce, part_in.threads)]
  /\ pc' = "start"
  /\ UNCHANGED <<not_partition, part_in>>

\* let start = thread_id as u128 * chunk_size;
PartitionStart ==
  /\ pc = "start"
  /\ part_out' = [part_out EXCEPT
       !.start = U128Mul(part_out.chunk_size, part_in.thread_id),
       !.overflow = @ \/ MulOverflows(part_out.chunk_size, part_in.thread_id)]
  /\ pc' = "end"
  /\ UNCHANGED <<not_partition, part_in>>

\* let end = if thread_id == self.threads - 1 { max_nonce }
\*           else { (thread_id as u128 + 1) * chunk_size };
PartitionEnd ==
  /\ pc = "end"
  /\ part_out' =
       IF part_in.thread_id = part_in.threads - 1
       THEN [part_out EXCEPT !.end = part_in.max_nonce]
       ELSE [part_out EXCEPT
               !.end = U128Mul(part_out.chunk_size, part_in.thread_id + 1),
               !.overflow = @ \/ MulOverflows(part_out.chunk_size,
                                              part_in.thread_id + 1)]
  /\ pc' = "loop"
  /\ UNCHANGED <<not_partition, part_in>>

\* let mut nonce = start; while nonce < end { ... }: the worker at one of its
\* iterations, or past the loop when the sub-range is empty
PartitionLoop ==
  /\ pc = "loop"
  /\ IF loop_nonces(part_out.start, part_out.end) = {}
     THEN /\ part_out' = [part_out EXCEPT !.nonce = part_out.start]
          /\ pc' = "done"
     ELSE /\ \E n \in loop_nonces(part_out.start, part_out.end) :
               part_out' = [part_out EXCEPT !.nonce = n]
          /\ pc' = "increment"
  /\ UNCHANGED <<not_partition, part_in>>

\* nonce += 1;
PartitionIncrement ==
  /\ pc = "increment"
  /\ part_out' = [part_out EXCEPT
       !.nonce = U128Add(part_out.nonce, 1),
       !.overflow = @ \/ AddOverflows(part_out.nonce, 1)]
  /\ pc' = "done"
  /\ UNCHANGED <<not_partition, part_in>>

InitPartition ==
  /\ part_in \in {a \in [max_nonce : PartitionMaxNonces,
                         threads : 1..MaxThreads,
                         thread_id : 0..(MaxThreads - 1)] :
                    a.thread_id < a.threads}
  /\ part_out = [chunk_size |-> U128_ZERO, start |-> U128_ZERO,
                 end |-> U128_ZERO, nonce |-> U128_ZERO, overflow |-> FALSE]
  /\ challenge = 0
  /\ miner_pubkey = 1
  /\ block_number \in BlockNumbers
  /\ target = U128_ZERO
  /\ threads = 1
  /\ pc = "chunk_size"
  /\ ret = Pending
  /\ IdleBackend /\ IdleProof /\ IdleSearch /\ IdleBatch /\ IdleGpu /\ IdleMain
  /\ IdlePure /\ IdleBench

NextPartition ==
  \/ PartitionChunkSize
  \/ PartitionStart
  \/ PartitionEnd
  \/ PartitionLoop
  \/ PartitionIncrement

SpecPartition == InitPartition /\ [][NextPartition]_vars

(***************************************************************************)
(* cuda_miner.rs: CudaMiner::with_config followed by mine.  with_config    *)
(* stores the two dimensions it is given, whatever they are, so mine runs  *)
(* with every pair of usize values, 0 and values of 2^32 and more          *)
(* included.  Pairs whose product overflows usize are left out.            *)
(***************************************************************************)
\* the dimensions with_config is given
LaunchDims == 0..MaxLaunchDim \cup {U32_MODULUS, U32_MODULUS + 1}

\* the launches followed for one call of mine
MaxLaunches == 12

\* miner.threads_per_block = threads_per_block; miner.num_blocks = num_blocks;
InitCudaConfig ==
  /\ backend = "CudaMiner"
  /\ challenge \in Challenges
  /\ miner_pubkey \in MinerPubkeys
  /\ block_number \in BlockNumbers
  /\ target \in Targets
  /\ max_nonce \in 0..MaxNonceBound \cup {U64_MAX + 1}
  /\ threads = 1
  /\ threads_per_block \in LaunchDims
  /\ num_blocks \in LaunchDims
  /\ threads_per_block * num_blocks <= U64_MAX
  /\ found = FALSE
  /\ result = 0
  /\ wpc = [t \in Workers |-> "loop"]
  /\ wnonce = [t \in Workers |-> range_start(t, max_nonce, threads)]
  /\ scanned = [t \in Workers \cup {0} |-> <<>>]
  /\ after_found = [t \in Workers |-> 0]
  /\ writes = <<>>
  /\ s_nonce = 0
  /\ start_nonce = 0
  /\ d_found = 0
  /\ d_result = 0
  /\ launches = <<>>
  /\ stop_requested = FALSE
  /\ after_stop = 0
  /\ pc = "mining"
  /\ ret = Pending
  /\ IdleProof /\ IdleSearch /\ IdleBatch /\ IdleGpu /\ IdleMain /\ IdlePure
  /\ IdlePartition /\ IdleBench

NextCudaConfig ==
  \/ CudaMinerAlloc
  \/ (Len(launches) < MaxLaunches /\ CudaMinerLaunch)
  \/ CudaMinerCheck
  \/ CudaMinerExhausted
  \/ CudaMinerDeviceError

SpecCudaConfig == InitCudaConfig /\ [][NextCudaConfig]_vars

(***************************************************************************)
(* cpu.rs: benchmark_cpu.  The benchmark thread spawns a thread that runs  *)
(* mine(&challenge, 0, 1, threads, counter, r), sleeps, clears the running *)
(* flag, joins the thread and reads the hash counter.                      *)
(***************************************************************************)
\* std::thread::sleep(..) is over: running.store(false, Ordering::SeqCst);
BenchmarkCpuStop ==
  /\ bench_pc = "sleep"
  /\ running' = FALSE
  /\ bench_pc' = "join"
  /\ UNCHANGED <<main_vars, uncounted, pure_vars, partition_vars, challenge,
                 miner_pubkey, block_number, target, threads, pc, ret,
                 backend_vars, proof_vars, difficulty, hash_counter, batch_vars,
                 gpu_vars, bench_hashes>>

\* let _ = handle.join(); let hashes = hash_counter.load(Ordering::Relaxed);
BenchmarkCpuRead ==
  /\ bench_pc = "join" /\ pc = "returned"
  /\ bench_hashes' = hash_counter
  /\ bench_pc' = "done"
  /\ UNCHANGED <<main_vars, uncounted, pure_vars, partition_vars, challenge,
                 miner_pubkey, block_number, target, threads, pc, ret,
                 backend_vars, proof_vars, search_vars, batch_vars, gpu_vars>>

\* let block_number = 0; let running = ..new(true); let threads =
\* num_cpus::get(); let hash_counter = ..new(0);
\* mine(&challenge, block_number, 1, threads, counter, r)
InitBenchmarkCpu ==
  /\ challenge \in Challenges
  /\ miner_pubkey = 1
  /\ block_number = 0
  /\ target = U128_ZERO
  /\ threads \in 1..MaxBatchThreads
  /\ difficulty = 1
  /\ running = TRUE
  /\ hash_counter = 0
  /\ uncounted = 0
  /\ pc = "batch_mine"
  /\ ret = Pending
  /\ bench_pc = "sleep"
  /\ bench_hashes = 0
  /\ IdleBackend /\ IdleProof /\ IdleBatch /\ IdleGpu /\ IdleMain /\ IdlePure
  /\ IdlePartition

NextBenchmarkCpu ==
  \/ BatchMineSetup
  \/ BatchMineLoop
  \/ \E i \in 1..MaxBatchThreads :
       BatchBegin(i) \/ BatchSkip(i) \/ BatchPoll(i) \/ BatchHash(i)
  \/ BatchRoundEnd
  \/ BenchmarkCpuStop
  \/ BenchmarkCpuRead

SpecBenchmarkCpu == InitBenchmarkCpu /\ [][NextBenchmarkCpu]_vars

(***************************************************************************)
(* Properties of the MinerBackend implementations (Spec, SpecStop).        *)
(***************************************************************************)
Valid(n) == verify_nonce(challenge_bytes, miner_pubkey_bytes, n, block_number, target)

ReturnedSome == pc = "returned" /\ ret[1] = "Some"

ReturnedNone == pc = "returned" /\ ret = None

\* the nonces handed to verify_nonce so far, by any worker
ScannedNonces == UNION {{scanned[t][i] : i \in 1..Len(scanned[t])} : t \in DOMAIN scanned}

\* C1: a nonce returned as Some by CpuMiner::mine or SimpleCpuMiner::mine
\* passes pow::verify_nonce on the inputs of the call; the result slot's
\* initial 0 is returned only if nonce 0 is valid.
C1_ReturnedNonceVerifies ==
  (backend \in {"CpuMiner", "SimpleCpuMiner"} /\ ReturnedSome) => Valid(ret[2])

\* CpuMiner::mine with several workers has returned a nonce other than the
\* placeholder 0 while nonce 0 is not valid
C1_Witness ==
  /\ backend = "CpuMiner" /\ threads >= 2 /\ ReturnedSome
  /\ ret[2] # 0 /\ ~Valid(0)

\* C2 as claimed: a nonce returned as Some by CpuMiner, SimpleCpuMiner or
\* CudaMiner is strictly below the max_nonce of the call.
C2_ReturnedNonceBelowMax == ReturnedSome => ret[2] < max_nonce

\* C3: CpuMiner::mine (threads >= 1) and SimpleCpuMiner::mine return None
\* only when no nonce of [0, max_nonce) is valid, and then every nonce of the
\* range was evaluated.
C3_NoneMeansExhausted ==
  (backend \in {"CpuMiner", "SimpleCpuMiner"} /\ threads >= 1 /\ ReturnedNone)
    => /\ \A n \in 0..(max_nonce - 1) : ~Valid(n)
       /\ ScannedNonces = 0..(max_nonce - 1)

\* CpuMiner::mine returns None after its workers scanned a range that does
\* not divide evenly
C3_Witness ==
  /\ backend = "CpuMiner" /\ threads >= 2 /\ max_nonce % threads # 0
  /\ max_nonce > threads /\ ReturnedNone

\* C4: for 1 <= threads <= max_nonce the sub-ranges [start, end) of
\* CpuMiner::mine are contiguous and ordered, start at 0 and end at
\* max_nonce: they partition [0, max_nonce), the last one taking the
\* remainder of the division.
C4_PartitionExact ==
  (backend = "CpuMiner" /\ 1 <= threads /\ threads <= max_nonce)
    => /\ range_start(0, max_nonce, threads) = 0
       /\ range_end(threads - 1, max_nonce, threads) = max_nonce
       /\ \A t \in 0..(threads - 1) :
            /\ range_start(t, max_nonce, threads) <= range_end(t, max_nonce, threads)
            /\ t < threads - 1 =>
                 /\ range_end(t, max_nonce, threads) = range_start(t + 1, max_nonce, threads)
                 /\ range_end(t, max_nonce, threads) - range_start(t, max_nonce, threads)
                      = max_nonce \div threads
       /\ \A t \in Workers : \A i \in 1..Len(scanned[t]) :
            /\ range_start(t, max_nonce, threads) <= scanned[t][i]
            /\ scanned[t][i] < range_end(t, max_nonce, threads)
       /\ (ReturnedNone => ScannedNonces = 0..(max_nonce - 1))

\* three workers share a range whose size is no multiple of 3, and all of it
\* was scanned: the last worker scanned the remainder
C4_Witness ==
  /\ backend = "CpuMiner" /\ threads = 3 /\ max_nonce = 5 /\ ReturnedNone
  /\ Len(scanned[2]) = 3

\* C8 as claimed: once a stop is requested the backends stop within a
\* bounded number of further candidates, one per worker at most (CPU), and
\* CudaMiner issues no further launch.
C8_StopIsObserved ==
  stop_requested =>
    /\ backend = "CudaMiner" =>
          \A i \in 1..Len(launches) : ~launches[i][3]
    /\ backend # "CudaMiner" => after_stop <= threads

\* C9 as claimed: the result slot of CpuMiner::mine is written at most once
\* per call.
C9_ResultWrittenOnce == Len(writes) <= 1

(***************************************************************************)
(* Properties of the batch search cpu::mine (SpecBatch, SpecBatchFair).    *)
(***************************************************************************)
\* C6 as claimed: once running is cleared no new round is started and every
\* mine_batch of the current round hashes fewer than CHECK_EVERY (1000)
\* further candidates.
C6_FewerThanIntervalAfterStop ==
  ~running =>
    /\ ~round_after_stop
    /\ \A i \in DOMAIN b_after : b_after[i] < CHECK_EVERY

\* C6, amended: once running is cleared no new round is started, every
\* mine_batch of the current round hashes at most CHECK_EVERY (1000) further
\* candidates.
C6_AtMostIntervalAfterStop ==
  ~running =>
    /\ ~round_after_stop
    /\ \A i \in DOMAIN b_after : b_after[i] <= CHECK_EVERY

\* a cancelled search has returned Ok(None) after one of its batches hashed
\* exactly CHECK_EVERY candidates past the clearing of the flag
C6_Witness ==
  /\ ~running /\ pc = "returned" /\ ret = Ok(None)
  /\ \E i \in DOMAIN b_after : b_after[i] = CHECK_EVERY /\ bres[i] = None

(***************************************************************************)
(* Properties of the accelerator search gpu::mine (SpecGpu, SpecGpuFair).  *)
(***************************************************************************)
\* C7: once running is cleared gpu::mine enqueues at most one further
\* launch, a launch runs all its lanes to the end, and the call returns.
C7_AtMostOneLaunchAfterStop ==
  /\ [](/\ launches_after_stop <= 1
        /\ (pc = "returned" /\ ret[1] = "Ok") => LanesDone)
  /\ (~running ~> pc = "returned")

\* the flag was cleared between the loop test and the launch: that launch
\* ran, and the search then returned Ok(None)
C7_Witness ==
  /\ ~running /\ launches_after_stop = 1 /\ LanesDone
  /\ pc = "returned" /\ ret = Ok(None)

\* the nonces of the lanes of the current launch
LaunchNonces == {lane_nonce(l) : l \in DOMAIN lpc}

\* C10: in one launch at most one lane writes the result buffers, and once
\* the launch is over with found = 1, result_hash is the digest the kernel
\* computes for result_nonce, that digest passes the kernel's is_valid_hash,
\* and result_nonce is a nonce of the launch.
C10_OneLaneRecordsResult ==
  /\ Cardinality(writers) <= 1
  /\ (pc = "gpu_wait" /\ LanesDone /\ found_buf = 1) =>
       /\ Cardinality(writers) = 1
       /\ result_nonce_buf \in LaunchNonces
       /\ result_hash_buf =
            sha256_40bytes(kernel_message(challenge_bytes, result_nonce_buf))
       /\ kernel_is_valid_hash(result_hash_buf, target_bytes)

\* a launch is over in which two lanes had a valid nonce and the one
\* recorded is not that of the first such lane
C10_Witness ==
  /\ pc = "gpu_wait" /\ LanesDone /\ found_buf = 1
  /\ \E l1, l2 \in DOMAIN lpc :
       /\ l1 < l2
       /\ kernel_is_valid_hash(lane_hash(l1), target_bytes)
       /\ kernel_is_valid_hash(lane_hash(l2), target_bytes)
       /\ result_nonce_buf = lane_nonce(l2)

(***************************************************************************)
(* Properties of the Proof Function and its re-implementations (SpecProof).*)
(***************************************************************************)
AllComputed ==
  pow_out # NotComputed /\ batch_out # NotComputed /\ kernel_out # NotComputed

\* C5 as claimed: on the same challenge, miner identity, nonce, block number
\* and target, cpu::mine_batch and the OpenCL kernel accept exactly the
\* nonces pow::verify_nonce accepts.
C5_BackendsAgreeWithProofFunction ==
  AllComputed =>
    /\ batch_out.valid = pow_out.valid
    /\ kernel_out.valid = pow_out.valid

(***************************************************************************)
(* Properties of main and run_benchmark (SpecMain).                        *)
(***************************************************************************)
AttemptNames == [i \in 1..Len(attempts) |-> attempts[i][1]]

IsPrefix(p, q) == Len(p) <= Len(q) /\ \A i \in 1..Len(p) : p[i] = q[i]

\* the backends this build can construct
Compiled(name) ==
  \/ name = "CpuMiner"
  \/ name = "CudaMiner" /\ feature_cuda
  \/ name = "OpenClMiner" /\ feature_opencl

\* the explicit choice of the command line, when this build knows it
ExplicitChoice ==
  IF cli_backend = "cpu" THEN <<"CpuMiner">>
  ELSE IF cli_backend = "cuda" /\ feature_cuda THEN <<"CudaMiner">>
  ELSE IF cli_backend = "opencl" /\ feature_opencl THEN <<"OpenClMiner">>
  ELSE <<>>

\* explicit choice, then CUDA, then OpenCL, then CPU, each candidate once
CandidateOrder ==
  ExplicitChoice \o
  SelectSeq(<<"CudaMiner", "OpenClMiner", "CpuMiner">>,
            LAMBDA name : Compiled(name) /\ ExplicitChoice # <<name>>)

\* C11 as claimed: the constructors are called in the order explicit choice,
\* CUDA, OpenCL, CPU, each one only after all those before it failed; after
\* the failure of an explicitly chosen accelerator the other accelerator is
\* tried before the CPU backend.
C11_CandidatesTriedInOrder ==
  pc # "main" =>
    /\ attempts # <<>>
    /\ IsPrefix(AttemptNames, CandidateOrder)
    /\ \A i \in 1..Len(attempts) :
         attempts[i][2] = (IF i = Len(attempts) THEN "Ok" ELSE "Err")

\* C12: selection is total and ends with exactly one backend, the one whose
\* constructor succeeded last; when every accelerator constructor that was
\* called failed the backend is CpuMiner; main returns no error before the
\* backend is selected.
C12_SelectionNeverFails ==
  /\ pc = "main" => ENABLED NextMain
  /\ pc # "main" =>
       /\ miner # None
       /\ attempts # <<>>
       /\ attempts[Len(attempts)] = <<miner[1], "Ok">>
       /\ \A i \in 1..(Len(attempts) - 1) : attempts[i][2] = "Err"
       /\ (\A i \in 1..Len(attempts) :
             attempts[i][1] # "CpuMiner" => attempts[i][2] = "Err")
          => miner[1] = "CpuMiner"
  /\ pc = "selected" => ret = Pending

\* an explicitly chosen CUDA backend failed to initialise and CpuMiner was
\* selected
C12_Witness ==
  /\ pc = "selected" /\ cli_backend = "cuda"
  /\ attempts = <<<<"CudaMiner", "Err">>, <<"CpuMiner", "Ok">>>>
  /\ miner = CpuMinerBox(num_cpus)

\* the text is any number of "0x" followed by exactly 64 hexadecimal digits
DecodesTo32Bytes(text) ==
  \E k \in 0..(Len(text) \div 2) :
    /\ \A i \in 1..k : text[2 * i - 1] = "0" /\ text[2 * i] = "x"
    /\ Len(text) - 2 * k = 64
    /\ \A i \in (2 * k + 1)..Len(text) : IsHexDigit(text[i])

Malformed(hex_opt) == hex_opt # None /\ ~DecodesTo32Bytes(hex_opt[2])

\* C13: with a challenge or miner identity that does not decode to exactly
\* 32 bytes, run_benchmark never reaches the call of mine, keeps no decoded
\* value for the malformed input, and returns an error.
C13_MalformedInputIsAnError ==
  /\ Malformed(challenge_hex) =>
       /\ bench_challenge = None
       /\ pc \notin {"parse_miner_pubkey", "target", "mine", "mine_called"}
  /\ Malformed(miner_pubkey_hex) =>
       /\ bench_miner_pubkey = None
       /\ pc \notin {"target", "mine", "mine_called"}
  /\ (Malformed(challenge_hex) \/ Malformed(miner_pubkey_hex)) =>
       /\ mine_calls = <<>>
       /\ (cli_benchmark /\ pc = "returned") => ret[1] = "Err"

\* a well-formed challenge was decoded, then the malformed miner identity
\* ended run_benchmark with an error
C13_Witness ==
  /\ pc = "returned" /\ cli_benchmark
  /\ challenge_hex # None /\ bench_challenge = Rep(1, 32)
  /\ Malformed(miner_pubkey_hex)
  /\ ret[1] = "Err" /\ mine_calls = <<>>

(***************************************************************************)
(* Error handling of the MinerBackend implementations (Spec).              *)
(***************************************************************************)
\* C14 as claimed: a call of mine with max_nonce = 0 (and a usable thread
\* count) is answered with a configuration error, never with the None of an
\* exhausted search.
C14_ZeroMaxNonceIsAnError ==
  (pc = "returned" /\ max_nonce = 0 /\ threads >= 1) => ret[1] = "Err"

\* the nonces handed to the kernel by the launches so far
CoveredByLaunches ==
  UNION {{launches[i][1] + k : k \in 0..(launches[i][2] - 1)} : i \in 1..Len(launches)}

\* C15 as claimed: CudaMiner::mine returns None only when its launches
\* covered all of [0, max_nonce) and no nonce of the range is valid.
C15_CudaNoneMeansExhausted ==
  (backend = "CudaMiner" /\ ReturnedNone) =>
    \A n \in 0..(max_nonce - 1) : n \in CoveredByLaunches /\ ~Valid(n)

(***************************************************************************)
(* The hash counter of cpu::mine and gpu::mine (SpecBatch, SpecGpu).       *)
(***************************************************************************)
\* C16 as claimed: at every moment of cpu::mine, and after it returned, the
\* hash counter differs from the number of digests computed by at most one
\* batch of BATCH_SIZE candidates.
C16_HashCounterWithinOneBatch ==
  uncounted <= BATCH_SIZE /\ uncounted >= -BATCH_SIZE

(***************************************************************************)
(* Properties of the validity predicate (SpecValidity).                    *)
(***************************************************************************)
\* byte k (from 1, least significant first) of a target
TargetByte(tg, k) ==
  LET limb == tg[8 - ((k - 1) \div 2)]
  IN  IF k % 2 = 1 THEN limb % 256 ELSE limb \div 256

\* the first 16 bytes of hash, read as a little-endian integer, are strictly
\* below the target: they differ, and at the most significant byte where
\* they differ the hash has the smaller one
BelowTarget(hash, tg) ==
  \E k \in 1..16 :
    /\ hash[k] < TargetByte(tg, k)
    /\ \A j \in (k + 1)..16 : hash[j] = TargetByte(tg, j)

\* C17: verify_nonce and cpu::is_valid_hash are true iff the first 16 digest
\* bytes, read as a little-endian 128-bit integer, are strictly less than
\* target; a hash value equal to target, and any hash under target 0, is
\* invalid, and bytes 16..31 play no part.
C17_ValidIffBelowTarget ==
  /\ \A i \in DOMAIN call_out :
       call_pc[i] = "done" =>
         call_out[i].valid = BelowTarget(call_out[i].hash, call_in[i].target)
  /\ is_valid_out # <<>> =>
       /\ is_valid_out[1] = BelowTarget(hash_in, call_in[1].target)
       /\ call_in[1].target = U128_ZERO => ~is_valid_out[1]

\* both functions were handed a hash value equal to the target, is_valid_hash
\* with non-zero bytes 16..31, and both rejected it
C17_Witness ==
  /\ pc = "calls" /\ Len(call_pc) = 2 /\ call_pc[1] = "done"
  /\ from_le_bytes(SubSeq(call_out[1].hash, 1, 16)) = call_in[1].target
  /\ ~call_out[1].valid
  /\ SubSeq(hash_in, 1, 16) = u128_to_le_bytes(call_in[1].target)
  /\ hash_in[17] = 255
  /\ is_valid_out = <<FALSE>>

\* C18: a nonce that verify_nonce accepts under a target T1 is accepted under
\* every target T2 > T1, for the same challenge, miner identity and block
\* number.
C18_TargetMonotone ==
  \A i \in DOMAIN call_out, j \in DOMAIN call_out :
    (/\ pc = "calls" /\ call_pc[i] = "done" /\ call_pc[j] = "done"
     /\ U128Less(call_in[i].target, call_in[j].target)
     /\ call_out[i].valid)
    => call_out[j].valid

\* a nonce accepted under two different targets below u128::MAX
C18_Witness ==
  /\ pc = "calls" /\ Len(call_pc) = 2
  /\ call_pc[1] = "done" /\ call_pc[2] = "done"
  /\ U128Less(call_in[1].target, call_in[2].target)
  /\ U128Less(call_in[2].target, U128_MAX)
  /\ call_out[1].valid /\ call_out[2].valid

(***************************************************************************)
(* Properties of compute_hash and verify_nonce as functions (SpecCalls).   *)
(***************************************************************************)
\* byte k (from 0) of the little-endian encoding of a value below 2^24
LeByte(v, k) == IF k < 3 THEN (v \div (256 ^ k)) % 256 ELSE 0

\* what a call was asked to hash
HashedTuple(i) ==
  <<call_in[i].challenge, call_in[i].miner_pubkey, call_in[i].nonce,
    call_in[i].block_number>>

\* C19: compute_hash hashes one 88-byte message: the 32 bytes of the
\* challenge, the 32 bytes of the miner identity, the nonce as 16
\* little-endian bytes, the block number as 8 little-endian bytes; two
\* different tuples never give the same message.
C19_MessageLayoutInjective ==
  /\ \A i \in DOMAIN call_pc :
       (pc = "hashing" /\ call_pc[i] = "done") =>
         LET m == call_out[i].message
         IN  /\ Len(m) = 88
             /\ \A k \in 1..32 : m[k] = call_in[i].challenge
             /\ \A k \in 1..32 : m[32 + k] = call_in[i].miner_pubkey
             /\ \A k \in 0..15 : m[65 + k] = LeByte(call_in[i].nonce, k)
             /\ \A k \in 0..7 : m[81 + k] = LeByte(call_in[i].block_number, k)
  /\ \A i \in DOMAIN call_pc, j \in DOMAIN call_pc :
       (/\ pc = "hashing" /\ call_pc[i] = "done" /\ call_pc[j] = "done"
        /\ HashedTuple(i) # HashedTuple(j))
       => call_out[i].message # call_out[j].message

\* two finished calls whose tuples differ in the nonce only, 1 and 256
C19_Witness ==
  /\ pc = "hashing" /\ call_pc = <<"done", "done">>
  /\ call_in[1].nonce = 1 /\ call_in[2].nonce = 256
  /\ call_in[1].challenge = call_in[2].challenge
  /\ call_in[1].miner_pubkey = call_in[2].miner_pubkey
  /\ call_in[1].block_number = call_in[2].block_number
  /\ call_out[1].message # call_out[2].message

\* C20: compute_hash and verify_nonce return the same digest and the same
\* verdict for the same arguments, whether the calls are made by two callers
\* at the same time or one after the other with other calls in between.
C20_SameInputsSameResults ==
  /\ \A i \in DOMAIN call_pc, j \in DOMAIN call_pc :
       (/\ pc = "hashing" /\ call_pc[i] = "done" /\ call_pc[j] = "done"
        /\ call_in[i] = call_in[j])
       => /\ call_out[i].hash = call_out[j].hash
          /\ call_out[i].valid = call_out[j].valid
  /\ \A i \in DOMAIN call_pc :
       (pc = "hashing" /\ call_pc[i] = "done" /\ prev_out[i] # NotComputed)
       => /\ call_out[i].hash = prev_out[i].hash
          /\ call_out[i].valid = prev_out[i].valid

\* both callers made the same call twice, each time with the same result
C20_Witness ==
  /\ pc = "hashing" /\ call_pc = <<"done", "done">>
  /\ call_in[1] = call_in[2]
  /\ prev_out[1] # NotComputed /\ prev_out[2] # NotComputed
  /\ call_out[1] = prev_out[2]

\* two finished calls on the same tuple but for the field sel
\* ("block_number", "miner_pubkey")
DifferOnlyIn(i, j, sel) ==
  /\ pc = "hashing" /\ call_pc[i] = "done" /\ call_pc[j] = "done"
  /\ call_in[i][sel] # call_in[j][sel]
  /\ \A f \in {"challenge", "miner_pubkey", "nonce", "block_number"} \ {sel} :
       call_in[i][f] = call_in[j][f]

\* the 8 bytes of the block number at the end of a message
BlockNumberBytes(m) == SubSeq(m, 81, 88)

\* the 32 bytes of the miner identity in a message
MinerPubkeyBytes(m) == SubSeq(m, 33, 64)

\* C21: round separation: two calls of compute_hash on the same challenge,
\* miner identity and nonce with different block numbers hash different
\* messages (they differ in the last 8 bytes and nowhere else) and return
\* different digests.
C21_BlockNumberChangesDigest ==
  \A i \in DOMAIN call_pc, j \in DOMAIN call_pc :
    DifferOnlyIn(i, j, "block_number") =>
      /\ Len(call_out[i].message) = 88 /\ Len(call_out[j].message) = 88
      /\ BlockNumberBytes(call_out[i].message) # BlockNumberBytes(call_out[j].message)
      /\ SubSeq(call_out[i].message, 1, 80) = SubSeq(call_out[j].message, 1, 80)
      /\ call_out[i].hash # call_out[j].hash

\* the calls of test_compute_hash: block numbers 100 and 101, all else equal
C21_Witness ==
  /\ DifferOnlyIn(1, 2, "block_number")
  /\ call_in[1].block_number = 100 /\ call_in[2].block_number = 101
  /\ call_in[1].nonce = 256
  /\ call_out[1].hash # call_out[2].hash

\* C22: identity separation: two calls of compute_hash on the same
\* challenge, nonce and block number with different miner identities hash
\* different messages (they differ in bytes 32..63 and nowhere else) and
\* return different digests.
C22_IdentityChangesDigest ==
  \A i \in DOMAIN call_pc, j \in DOMAIN call_pc :
    DifferOnlyIn(i, j, "miner_pubkey") =>
      /\ Len(call_out[i].message) = 88 /\ Len(call_out[j].message) = 88
      /\ MinerPubkeyBytes(call_out[i].message) # MinerPubkeyBytes(call_out[j].message)
      /\ SubSeq(call_out[i].message, 1, 32) = SubSeq(call_out[j].message, 1, 32)
      /\ SubSeq(call_out[i].message, 65, 88) = SubSeq(call_out[j].message, 65, 88)
      /\ call_out[i].hash # call_out[j].hash

\* a nonce that is a proof for one identity and none for the other
C22_Witness ==
  /\ DifferOnlyIn(1, 2, "miner_pubkey")
  /\ call_out[1].hash # call_out[2].hash
  /\ call_out[1].valid /\ ~call_out[2].valid

\* the candidates of the launches in ls, added up
RECURSIVE LaunchedCandidates(_)
LaunchedCandidates(ls) ==
  IF ls = <<>> THEN 0 ELSE ls[1][2] + LaunchedCandidates(Tail(ls))

\* C23: every accelerator host loop waits for its launch, adds the launch's
\* candidate count to the shared hash counter, reads the found flag, and
\* returns or advances: whenever CudaMiner::mine has read the found flag of
\* its latest launch, the hash counter has grown by the candidates of every
\* launch so far.
C23_CounterAddedOncePerLaunch ==
  (backend = "CudaMiner" /\ pc \in {"loop", "returned"} /\ launches # <<>>
   /\ (pc = "returned" => ret # None))
  => hash_counter = LaunchedCandidates(launches)

\* C24 as claimed: in CpuMiner::mine, once a worker has set the found flag,
\* every worker evaluates at most one further candidate (the one it was
\* already past the flag check for) and leaves its loop; all workers
\* terminate and mine returns.
C24_WorkersStopAfterFound ==
  /\ []((backend = "CpuMiner" /\ found) =>
           \A t \in Workers : after_found[t] <= 1)
  /\ (backend = "CpuMiner" /\ found) ~>
       (pc = "returned" /\ \A t \in Workers : wpc[t] = "done")

\* C24 amended: in CpuMiner::mine, once a worker has set the found flag,
\* every other worker may still evaluate further candidates, because its
\* Relaxed load of the flag may return the older value: each of them is the
\* next nonce of its own sub-range, so there are never more of them than
\* the sub-range holds; a worker that has left its loop evaluates nothing
\* more; all workers terminate and mine returns.
C24_WorkersStopOnSeeingFound ==
  /\ []((backend = "CpuMiner" /\ found) =>
           \A t \in Workers :
             /\ after_found[t] <= Len(scanned[t])
             /\ Len(scanned[t]) <= range_end(t, max_nonce, threads)
                                     - range_start(t, max_nonce, threads)
             /\ \A i \in 1..Len(scanned[t]) :
                  scanned[t][i] = range_start(t, max_nonce, threads) + i - 1)
  /\ [][backend = "CpuMiner" =>
          \A t \in Workers :
            wpc[t] = "done" => (wpc'[t] = "done" /\ scanned'[t] = scanned[t])]_vars
  /\ (backend = "CpuMiner" /\ found) ~>
       (pc = "returned" /\ \A t \in Workers : wpc[t] = "done")

\* mine has returned; a worker evaluated two candidates after the flag was
\* set, its loads having returned the older value, then left its loop on
\* seeing the flag, with a nonce of its sub-range not evaluated and without
\* having found anything itself
C24_Witness ==
  /\ backend = "CpuMiner" /\ found /\ pc = "returned"
  /\ \E t \in Workers :
       /\ after_found[t] >= 2
       /\ wpc[t] = "done"
       /\ wnonce[t] < range_end(t, max_nonce, threads)
       /\ \A i \in 1..Len(writes) : writes[i][1] # t

\* C25: in CpuMiner::mine each worker evaluates nonces of its own sub-range
\* only, one after the other from the sub-range's first nonce upwards; no
\* nonce is evaluated by two workers or twice, and none outside
\* [0, max_nonce).
C25_WorkersScanOwnRangeInOrder ==
  backend = "CpuMiner" =>
    /\ \A t \in Workers :
         /\ \A i \in 1..Len(scanned[t]) :
              /\ scanned[t][i] = range_start(t, max_nonce, threads) + (i - 1)
              /\ scanned[t][i] < range_end(t, max_nonce, threads)
              /\ 0 <= scanned[t][i] /\ scanned[t][i] < max_nonce
         /\ \A i \in 1..Len(scanned[t]), j \in 1..Len(scanned[t]) :
              i < j => scanned[t][i] < scanned[t][j]
    /\ \A t \in Workers, u \in Workers :
         t # u => \A i \in 1..Len(scanned[t]), j \in 1..Len(scanned[u]) :
                    scanned[t][i] # scanned[u][j]

\* two workers have scanned their sub-ranges to the end: [0, 2) and [2, 5)
C25_Witness ==
  /\ backend = "CpuMiner" /\ pc = "returned" /\ ret = None
  /\ threads = 2 /\ max_nonce = 5
  /\ scanned[0] = <<0, 1>> /\ scanned[1] = <<2, 3, 4>>

\* C26: the partition arithmetic of CpuMiner::mine stays within u128 for
\* every thread count >= 1 and every max_nonce up to u128::MAX: no
\* multiplication and no nonce += 1 overflows, thread_id * chunk_size and
\* (thread_id + 1) * chunk_size never exceed max_nonce, and nonce never
\* passes end.
C26_PartitionWithinU128 ==
  pc \in {"chunk_size", "start", "end", "loop", "increment", "done"} =>
    /\ ~part_out.overflow
    /\ pc \notin {"chunk_size", "start"} =>
         /\ ~MulOverflows(part_out.chunk_size, part_in.thread_id)
         /\ ~MulOverflows(part_out.chunk_size, part_in.thread_id + 1)
         /\ U128LessEq(part_out.start, part_in.max_nonce)
         /\ U128LessEq(U128Mul(part_out.chunk_size, part_in.thread_id + 1),
                       part_in.max_nonce)
    /\ pc \in {"loop", "increment", "done"} =>
         /\ U128LessEq(part_out.start, part_out.end)
         /\ U128LessEq(part_out.end, part_in.max_nonce)
    /\ pc \in {"increment", "done"} =>
         /\ U128LessEq(part_out.start, part_out.nonce)
         /\ U128LessEq(part_out.nonce, part_out.end)

\* the last of three workers of a search up to u128::MAX has made its last
\* increment: nonce = end = u128::MAX
C26_Witness ==
  /\ pc = "done" /\ part_in.max_nonce = U128_MAX
  /\ part_in.threads = MaxThreads /\ part_in.thread_id = MaxThreads - 1
  /\ part_out.nonce = U128_MAX /\ part_out.end = U128_MAX
  /\ part_out.start # U128_ZERO

\* min(max_nonce, 2^64 - 1)
SearchLimit == IF max_nonce < U64_MAX THEN max_nonce ELSE U64_MAX

\* the nonces of launch k
LaunchRange(k) == launches[k][1]..(launches[k][1] + launches[k][2] - 1)

\* C27 as claimed: in CudaMiner::mine the launches cover contiguous,
\* non-overlapping nonce ranges from 0 on: a launch starts where the one
\* before it ended and covers min(threads_per_block * num_blocks, remaining)
\* candidates, one per lane; start_nonce never exceeds
\* min(max_nonce, 2^64 - 1), so it never overflows; the lanes of a launch
\* evaluate the nonces start_nonce + i, so a recorded nonce is a valid nonce
\* of the latest launch.
C27_LaunchesContiguous ==
  backend = "CudaMiner" =>
    /\ \A k \in 1..Len(launches) :
         /\ launches[k][1] =
              IF k = 1 THEN 0 ELSE launches[k - 1][1] + launches[k - 1][2]
         /\ launches[k][2] =
              Min(threads_per_block * num_blocks, SearchLimit - launches[k][1])
         /\ launches[k][4] = launches[k][2]
         /\ launches[k][1] + launches[k][2] <= SearchLimit
    /\ start_nonce <= SearchLimit /\ start_nonce <= U64_MAX
    /\ pc = "loop" => start_nonce = LaunchedCandidates(launches)
    /\ pc = "check" => start_nonce = launches[Len(launches)][1]
    /\ (d_found = 1 /\ launches # <<>>) =>
         /\ d_result \in LaunchRange(Len(launches))
         /\ Valid(d_result)
         /\ \A k \in 1..(Len(launches) - 1) : \A n \in LaunchRange(k) : ~Valid(n)
    /\ (d_found = 0 /\ launches # <<>>) =>
         \A k \in 1..Len(launches) : \A n \in LaunchRange(k) : ~Valid(n)

\* the nonces batch i has hashed when it found nothing: mine_batch starts at
\* the batch's first nonce and goes up one nonce per digest
HashedByBatch(i) == bnonce[i] - batches[i][1]

\* C28: every round of cpu::mine issues one batch of BATCH_SIZE consecutive
\* nonces per thread, the batches of a round are contiguous, and absent a
\* find or a cancellation every nonce of every batch is evaluated, also
\* when a batch or a round wraps past the largest 64-bit nonce: a round
\* that ends with nothing found and the search still running has hashed
\* BATCH_SIZE nonces in each of its batches.
C28_EveryBatchNonceEvaluated ==
  (/\ pc = "batch_round" /\ running /\ BatchFound = {}
   /\ \A i \in BatchIds : bpc[i] = "done")
  => \A i \in BatchIds :
       /\ batches[i][1] = wrapping_add(batch_start, (i - 1) * BATCH_SIZE)
       /\ batches[i][2] = wrapping_add(batches[i][1], BATCH_SIZE)
       /\ HashedByBatch(i) = BATCH_SIZE

\* C29: the byte-wise is_valid_hash of the OpenCL kernel returns, for every
\* hash and every target, what the host's comparison of the two
\* little-endian 128-bit integers returns: true iff the first 16 hash
\* bytes are strictly below the target, false when they are equal.
C29_KernelAgreesWithHost ==
  /\ (is_valid_out # <<>> /\ kernel_valid_out # <<>>) =>
       kernel_valid_out[1] = is_valid_out[1]
  /\ kernel_valid_out # <<>> =>
       /\ kernel_valid_out[1] = BelowTarget(hash_in, call_in[1].target)
       /\ kernel_valid_out[1] =
            U128Less(from_le_bytes(SubSeq(hash_in, 1, 16)), call_in[1].target)
       /\ SubSeq(hash_in, 1, 16) = u128_to_le_bytes(call_in[1].target) =>
            ~kernel_valid_out[1]

\* both predicates accepted a hash that is below the target in byte 15 and
\* above it in byte 0
C29_Witness ==
  /\ pc = "calls" /\ is_valid_out = <<TRUE>> /\ kernel_valid_out = <<TRUE>>
  /\ hash_in[16] < TargetByte(call_in[1].target, 16)
  /\ hash_in[1] > TargetByte(call_in[1].target, 1)

\* C30: cancellation is a normal "not found" result: when cpu::mine or
\* gpu::mine tests the running flag at the head of its search loop and finds
\* it false, the call returns Ok(None) in that step, with no hash evaluated,
\* no round and no launch started and the hash counter as it was; a call
\* cancelled before its first round or launch returns with the counter
\* unchanged.
C30_CancelledBeforeLoopReturnsNone ==
  /\ [][/\ (pc = "batch_loop" /\ ~running /\ pc' # pc) =>
             /\ pc' = "returned" /\ ret' = Ok(None)
             /\ hash_counter' = hash_counter /\ uncounted' = uncounted
             /\ UNCHANGED batch_vars
        /\ (pc = "gpu_loop" /\ ~running /\ pc' # pc) =>
             /\ pc' = "returned" /\ ret' = Ok(None)
             /\ hash_counter' = hash_counter /\ uncounted' = uncounted
             /\ UNCHANGED gpu_vars]_vars
  /\ []((pc = "returned" /\ ret = Ok(None) /\ batches = <<>> /\ lpc = <<>>) =>
          (hash_counter = 0 /\ uncounted = 0 /\ launches_after_stop = 0))

\* gpu::mine found the flag cleared at its first loop test and returned
\* Ok(None): no launch, no hash, the counter still 0
C30_Witness ==
  /\ pc = "returned" /\ ret = Ok(None) /\ ~running
  /\ gpu_start_nonce # 0 /\ lpc = <<>> /\ batches = <<>>
  /\ hash_counter = 0 /\ uncounted = 0 /\ launches_after_stop = 0

(***************************************************************************)
(* Properties of benchmark_cpu (SpecBenchmarkCpu).                         *)
(***************************************************************************)
\* C31: in benchmark_cpu the search runs against a target no nonce can
\* satisfy: the mining call never returns a found nonce and ends only after
\* the running flag has been cleared, so the counter read afterwards counts
\* the hashes of the whole measurement interval.
C31_BenchmarkMinesUntilStopped ==
  /\ pc = "returned" => (ret = Ok(None) /\ ~running)
  /\ bench_pc = "done" => ret = Ok(None)

(***************************************************************************)
(* Further properties of the MinerBackend implementations (Spec, SpecFair, *)
(* SpecMain).                                                              *)
(***************************************************************************)
CpuBackend == backend \in {"CpuMiner", "SimpleCpuMiner"} /\ threads >= 1

\* C32: exhaustion terminates normally: for every max_nonce and every
\* thread count >= 1, CpuMiner::mine and SimpleCpuMiner::mine terminate;
\* a worker's cursor never goes back, stays within its sub-range and goes
\* up by one with every candidate that is not valid; the call returns None,
\* not a failure, when no nonce of [0, max_nonce) is valid.
C32_ExhaustionTerminates ==
  /\ CpuBackend ~> (pc = "returned" /\ ret # Panicked)
  /\ [][CpuBackend =>
          /\ \A t \in Workers :
               /\ wnonce'[t] >= wnonce[t]
               /\ wnonce'[t] <= range_end(t, max_nonce, threads)
               /\ (scanned'[t] # scanned[t] /\ wpc'[t] = "loop") =>
                    wnonce'[t] = wnonce[t] + 1
          /\ s_nonce' >= s_nonce /\ s_nonce' <= max_nonce
          /\ (scanned'[0] # scanned[0] /\ pc' = "mining") =>
               (s_nonce' = s_nonce + 1 \/ backend = "CpuMiner")]_vars
  /\ []((CpuBackend /\ pc = "returned" /\ \A n \in 0..(max_nonce - 1) : ~Valid(n))
          => ret = None)

\* three workers have each reached the end of their sub-range of a range
\* without a valid nonce, and mine has returned None
C32_Witness ==
  /\ backend = "CpuMiner" /\ threads = 3 /\ max_nonce = MaxNonceBound
  /\ pc = "returned" /\ ret = None
  /\ \A t \in Workers : wnonce[t] = range_end(t, max_nonce, threads)
  /\ \A n \in 0..(max_nonce - 1) : ~Valid(n)

\* the valid nonces of the sub-range of worker t
ValidInRange(t) ==
  {n \in range_start(t, max_nonce, threads)..(range_end(t, max_nonce, threads) - 1) :
     Valid(n)}

\* the smallest element of a non-empty set of nonces
Smallest(S) == CHOOSE n \in S : \A m \in S : n <= m

\* C33: the nonce CpuMiner::mine returns is the one written last to the
\* result slot, and it is the smallest valid nonce of the sub-range of the
\* worker that wrote it (it need not be the smallest valid nonce of
\* [0, max_nonce): see the witness).
C33_ReturnsLastWritersSmallest ==
  (backend = "CpuMiner" /\ ReturnedSome) =>
    /\ writes # <<>>
    /\ ret[2] = writes[Len(writes)][2]
    /\ ValidInRange(writes[Len(writes)][1]) # {}
    /\ ret[2] = Smallest(ValidInRange(writes[Len(writes)][1]))
    /\ \A i \in 1..Len(writes) :
         writes[i][2] = Smallest(ValidInRange(writes[i][1]))

\* two workers each found the valid nonce of their sub-range; the worker
\* with the larger one wrote last, so mine returned a nonce that is not the
\* smallest valid one (in the other order it returns the smallest)
C33_Witness ==
  /\ backend = "CpuMiner" /\ ReturnedSome /\ Len(writes) = 2
  /\ writes[1][2] < writes[2][2]
  /\ ret[2] = writes[2][2]
  /\ ret[2] # Smallest({n \in 0..(max_nonce - 1) : Valid(n)})

\* the valid nonces of [0, max_nonce)
ValidNonces == {n \in 0..(max_nonce - 1) : Valid(n)}

\* what a sequential scan of [0, max_nonce) yields
SmallestValidOrNone == IF ValidNonces = {} THEN None ELSE Some(Smallest(ValidNonces))

\* C34: CpuMiner::new(1).mine and SimpleCpuMiner::mine return the same
\* value for the same inputs: the smallest valid nonce of [0, max_nonce),
\* or None when that range holds no valid nonce.
C34_SingleWorkerIsSequential ==
  (pc = "returned" /\ (backend = "SimpleCpuMiner" \/ (backend = "CpuMiner" /\ threads = 1)))
    => ret = SmallestValidOrNone

\* the single worker of CpuMiner passed invalid nonces and returned the
\* first valid one
C34_Witness ==
  /\ backend = "CpuMiner" /\ threads = 1 /\ ReturnedSome
  /\ ret[2] > 0 /\ ret = SmallestValidOrNone
  /\ Len(scanned[0]) = ret[2] + 1

(***************************************************************************)
(* Properties of CudaMiner::with_config and mine (SpecCudaConfig).         *)
(***************************************************************************)
\* C35: every iteration of the launch loop of CudaMiner::mine that goes on
\* to the next one advances start_nonce by at least one candidate, whatever
\* the launch configuration (threads_per_block or num_blocks 0 included),
\* so mine makes at most max_nonce_u64 launches and terminates.
C35_EveryLaunchAdvances ==
  /\ [][(pc = "check" /\ pc' = "loop") => start_nonce' >= start_nonce + 1]_vars
  /\ [](Len(launches) <= max_nonce_u64(max_nonce))

(***************************************************************************)
(* Further properties of the MinerBackend implementations (Spec).          *)
(***************************************************************************)
\* C36: CpuMiner::mine returns Some(nonce) or None for every thread count
\* CpuMiner::new accepts, 0 included: the computation of chunk_size never
\* divides by zero.
C36_EveryThreadCountYieldsResult ==
  (backend = "CpuMiner" /\ pc = "returned") => (ret = None \/ ret[1] = "Some")

(***************************************************************************)
(* Further properties of backend selection (SpecMain).                     *)
(***************************************************************************)
\* the selected backend is one of the two stubs: OpenClMiner, or the
\* CudaMiner of a build without the feature "cuda"
StubSelected ==
  miner # None /\ (miner[1] = "OpenClMiner" \/ (miner[1] = "CudaMiner" /\ ~feature_cuda))

\* C37 as claimed: main never selects a stub backend, and selecting
\* "opencl", or "cuda" in a build without CUDA support, always ends with
\* the CPU backend.
C37_StubNeverSelected ==
  pc # "main" =>
    /\ ~StubSelected
    /\ (cli_backend = "opencl" \/ (cli_backend = "cuda" /\ ~feature_cuda))
         => miner[1] = "CpuMiner"

\* C37 amended: main never selects a stub backend; selecting "cuda" in a
\* build without CUDA support always ends with the CPU backend; selecting
\* "opencl" ends with the CPU backend, except in a build with the feature
\* "cuda" and without the feature "opencl", where the string falls to the
\* arm "auto" | _ and ends with the CudaMiner whose constructor succeeded.
C37_StubNeverSelected_Amended ==
  pc # "main" =>
    /\ ~StubSelected
    /\ (cli_backend = "cuda" /\ ~feature_cuda) => miner[1] = "CpuMiner"
    /\ (cli_backend = "opencl" /\ (feature_opencl \/ ~feature_cuda))
         => miner[1] = "CpuMiner"
    /\ (cli_backend = "opencl" /\ miner[1] # "CpuMiner")
         => /\ feature_cuda /\ ~feature_opencl
            /\ miner = <<"CudaMiner">>
            /\ attempts = <<<<"CudaMiner", "Ok">>>>

\* "opencl" asked of a build with CUDA and without OpenCL: the CUDA backend
\* was selected
C37_Witness ==
  /\ pc = "selected" /\ cli_backend = "opencl"
  /\ feature_cuda /\ ~feature_opencl
  /\ miner = <<"CudaMiner">>

\* the backends compiled into this build that auto-detection tries, in its
\* order
AutoOrder ==
  (IF feature_cuda THEN <<"CudaMiner">> ELSE <<>>)
  \o (IF feature_opencl THEN <<"OpenClMiner">> ELSE <<>>)
  \o <<"CpuMiner">>

\* C38: a backend string that is none of the explicit choices of the build
\* ("cpu", "cuda" with the feature "cuda", "opencl" with the feature
\* "opencl") is handled as "auto": main goes on to a selected backend,
\* reached by trying CUDA, then OpenCL, then CPU among those compiled in,
\* and returns no error before a backend is selected.
C38_UnknownBackendIsAuto ==
  ~ExplicitArm =>
    /\ pc = "main" => ENABLED SelectAuto
    /\ pc # "main" =>
         /\ miner # None
         /\ attempts # <<>>
         /\ IsPrefix(AttemptNames, AutoOrder)
         /\ \A i \in 1..Len(attempts) :
              attempts[i][2] = (IF i = Len(attempts) THEN "Ok" ELSE "Err")
         /\ miner[1] = attempts[Len(attempts)][1]
         /\ miner[1] = "CpuMiner" => miner = CpuMinerBox(num_cpus)

\* the unrecognised string "gpu" in a build with CUDA whose device failed:
\* the CPU backend was selected as for "auto", cli_threads unused
C38_Witness ==
  /\ pc = "selected" /\ cli_backend = "gpu"
  /\ feature_cuda /\ ~feature_opencl
  /\ attempts = <<<<"CudaMiner", "Err">>, <<"CpuMiner", "Ok">>>>
  /\ miner = CpuMinerBox(num_cpus)

(***************************************************************************)
(* Target derivation in cpu::mine and gpu::mine (SpecSearch).              *)
(***************************************************************************)
\* C39: u128::MAX / difficulty is defined for every difficulty the callers
\* supply, 0 included: the search never panics, and once it is past its
\* set-up the target is the quotient, it is at most u128::MAX, and it is
\* no larger than the target of any smaller difficulty.
C39_TargetDefinedForEveryDifficulty ==
  /\ ret # Panicked
  /\ (pc \notin {"batch_mine", "gpu_mine"} /\ ret # Err) =>
       /\ target = U128Div(U128_MAX, difficulty)
       /\ U128LessEq(target, U128_MAX)
       /\ \A d \in Difficulties \ {0} :
            d <= difficulty => U128LessEq(target, U128Div(U128_MAX, d))

(***************************************************************************)
(* The result of the batch search cpu::mine (SpecBatch).                   *)
(***************************************************************************)
\* cpu::mine returned Ok(Some((nonce, hash)))
BatchReturnedSome == pc = "returned" /\ ret[1] = "Ok" /\ ret[2] # None

\* C40: when cpu::mine returns Ok(Some((nonce, hash))), hash is the digest
\* of the message of that nonce, its first 16 bytes read little-endian are
\* strictly below u128::MAX / difficulty, and the nonce lies in one of the
\* batches of the round that returned it.
C40_ResultIsOneCandidate ==
  BatchReturnedSome =>
    LET nonce == ret[2][2][1]
        hash == ret[2][2][2]
    IN  /\ hash = Sha256(batch_message(challenge_bytes, block_number, nonce))
        /\ U128Less(from_le_bytes(SubSeq(hash, 1, 16)), U128Div(U128_MAX, difficulty))
        /\ \E i \in 1..threads :
             /\ batches[i] = batch_range(batch_start, i - 1)
             /\ batches[i][1] <= nonce /\ nonce < batches[i][2]

\* two batches of the round found a nonce each, past an invalid one, and
\* the pair of the second batch was returned
C40_Witness ==
  /\ BatchReturnedSome /\ difficulty > 1
  /\ threads = 2 /\ BatchFound = {1, 2}
  /\ ret = Ok(bres[2])
  /\ bres[1][2][1] > batches[1][1]

=============================================================================
